---- MODULE Spec2Model ----
(***************************************************************************)
(* A model of the coding-agent control loop of ai-engineer.mjs and of its  *)
(* tools (tools/files.mjs, tools/cmd.mjs): the sandbox path resolver, the  *)
(* patch recorder and writer, the response normalizer, the model turn      *)
(* driver, the command runner, the file search, the tool dispatch with its *)
(* session log, the passes and verification of a task, and the readline    *)
(* entrypoint with its line handlers; also the path resolver of the        *)
(* earlier file accessor (unnamed/part_003).                               *)
(*                                                                         *)
(* Strings are sequences of one-character strings, so that prefix tests    *)
(* and path arithmetic are computed the way the code computes them.        *)
(***************************************************************************)
EXTENDS Integers, Sequences, FiniteSets, TLC

VARIABLES
  rRoot,        \* resolveInside: the workspace argument
  rPath,        \* resolveInside: the targetPath argument
  rOut,         \* resolveInside: Pending, or the outcome of the call
  rEnsured,     \* ensureInWorkspace: Pending, or the outcome of the call
  approveFlag,  \* args.includes('--approve')
  writeGating,  \* defaults.writeGating: "absent", "false" or "true"
  fs,           \* the file system: absolute path -> node
  patches,      \* the files of patchesDir: artifact name -> content
  now,          \* the last reading of the clock (ms)
  ap,           \* the applyPatch call in progress: its position and locals
  apLog,        \* the applyPatch calls that have returned or thrown, in order
  lastObs,      \* what a concurrent reader last saw at the target of the call
  rd,           \* the last read_file call and its outcome
  nParts,       \* normalizeResponse: the parts a backend response carries
  nRaw,         \* normalizeResponse: a raw response of some other shape
  nOutFlat,     \* the outcome for the flat shape carrying nParts
  nOutNested,   \* the outcome for the nested shape carrying nParts
  nOutRaw,      \* the outcome for nRaw
  model,        \* ai-engineer.mjs: the selected model identifier
  mt,           \* modelTurn: position, attempt and lastErr of the turn
  calls,        \* the model identifier of every backend call of the process
  tOutcomes,    \* what the backend did at each attempt of the current turn
  tWaits,       \* the backoff timers the current turn has sat through, in ms
  turnOut,      \* what the last turn returned or threw
  turn,         \* the number of turns started
  sw,           \* when line 163 assigned the fallback, if it has
  cmTimeout,    \* runCmd: timeout_ms
  cmExec,       \* runCmd: what execa did with the command
  cmVia,        \* "runCmd" or "runTests": the function called
  cmOut,        \* runCmd: Pending, or what the call returned
  sfMax,        \* searchFiles: maxResults
  sfExec,       \* searchFiles: what execa did with rg
  sfOut,        \* searchFiles: Pending, or what the call returned
  lUntilDone,   \* args.includes('--until-done')
  lMaxToolIters,\* defaults.maxToolIters
  lMode,        \* "one-shot" with a task on the command line, else "repl"
  lp,           \* where the process is: pc, iterations, calls to dispatch
  lHist,        \* the turns pushed to history since the last loop test
  lLog,         \* the lines written to the session log since then
  lSeen,        \* what has been seen of the task and of its current pass
  lExit,        \* whether the process has exited, and its code
  replMode,     \* "one-shot" with a task on the command line, else "repl"
  replUntilDone,\* args.includes('--until-done')
  replMaxToolIters,\* defaults.maxToolIters
  replLines,    \* the line events emitted so far
  replRuns,     \* the runTask invocations, each suspended at an await
  replLast,     \* the last turn pushed to history, and by which invocation
  replExit      \* whether the process has exited, and its code

pathVars == <<rRoot, rPath, rOut, rEnsured>>

patchVars == <<approveFlag, writeGating, fs, patches, now, ap, apLog, lastObs, rd>>

normVars == <<nParts, nRaw, nOutFlat, nOutNested, nOutRaw>>

turnVars == <<model, mt, calls, tOutcomes, tWaits, turnOut, turn, sw>>

cmdVars == <<cmTimeout, cmExec, cmVia, cmOut>>

\* What the actions of one part of the model leave alone
searchVars == <<sfMax, sfExec, sfOut>>

loopVars == <<lUntilDone, lMaxToolIters, lMode, lp, lHist, lLog, lSeen, lExit>>

replVars == <<replMode, replUntilDone, replMaxToolIters, replLines, replRuns, replLast, replExit>>

exceptResolve == <<patchVars, normVars, turnVars, cmdVars, searchVars, loopVars, replVars>>

exceptPatch == <<pathVars, normVars, turnVars, cmdVars, searchVars, loopVars, replVars>>

exceptNorm == <<pathVars, patchVars, turnVars, cmdVars, searchVars, loopVars, replVars>>

exceptTurn == <<pathVars, patchVars, normVars, cmdVars, searchVars, loopVars, replVars>>

exceptCmd == <<pathVars, patchVars, normVars, turnVars, searchVars, loopVars, replVars>>

exceptSearch == <<pathVars, patchVars, normVars, turnVars, cmdVars, loopVars, replVars>>

exceptLoop == <<pathVars, patchVars, normVars, turnVars, cmdVars, searchVars, replVars>>

exceptRepl == <<pathVars, patchVars, normVars, turnVars, cmdVars, searchVars, loopVars>>

vars == <<rRoot, rPath, rOut, rEnsured,
          approveFlag, writeGating, fs, patches, now, ap, apLog, lastObs, rd,
          nParts, nRaw, nOutFlat, nOutNested, nOutRaw,
          model, mt, calls, tOutcomes, tWaits, turnOut, turn, sw,
          cmTimeout, cmExec, cmVia, cmOut,
          sfMax, sfExec, sfOut,
          lUntilDone, lMaxToolIters, lMode, lp, lHist, lLog, lSeen, lExit,
          replMode, replUntilDone, replMaxToolIters, replLines, replRuns, replLast, replExit>>

(***************************************************************************)
(* Bounds of the model.                                                    *)
(***************************************************************************)
MaxRootLen == 2
MaxPathLen == 5
MaxCalls == 2
MaxClock == 1
MaxParts == 2
MaxTurns == 2
MaxOutLen == 4
MaxResultsArg == 2
MaxIters == 2
MaxSeen == 3
MaxLines == 2

(***************************************************************************)
(* Strings.                                                                *)
(***************************************************************************)
Sep == "/"

PathChars == {"/", ".", "w"}

StrUpTo(chars, n) == UNION {[1..k -> chars] : k \in 0..n}

StartsWith(s, p) == Len(p) <= Len(s) /\ SubSeq(s, 1, Len(p)) = p

RECURSIVE SplitFrom(_, _, _, _)
SplitFrom(s, i, cur, acc) ==
  IF i > Len(s) THEN Append(acc, cur)
  ELSE IF s[i] = Sep THEN SplitFrom(s, i + 1, <<>>, Append(acc, cur))
  ELSE SplitFrom(s, i + 1, Append(cur, s[i]), acc)

\* s.split('/')
Split(s) == SplitFrom(s, 1, <<>>, <<>>)

RECURSIVE Join(_)
\* segs.join('/')
Join(segs) ==
  IF Len(segs) = 0 THEN <<>>
  ELSE IF Len(segs) = 1 THEN segs[1]
  ELSE segs[1] \o <<Sep>> \o Join(Tail(segs))

(***************************************************************************)
(* path.resolve and path.dirname of node (posix), which the tools call.    *)
(***************************************************************************)
\* process.cwd()
Cwd == <<"/", "w">>

RECURSIVE NormalizeSegs(_, _, _)
\* normalizeString of an absolute path: '' and '.' are dropped, '..' pops
\* the last segment and is dropped at the root.
NormalizeSegs(segs, i, acc) ==
  IF i > Len(segs) THEN acc
  ELSE IF segs[i] = <<>> \/ segs[i] = <<".">> THEN NormalizeSegs(segs, i + 1, acc)
  ELSE IF segs[i] = <<".", ".">>
    THEN NormalizeSegs(segs, i + 1,
                       IF Len(acc) = 0 THEN acc ELSE SubSeq(acc, 1, Len(acc) - 1))
  ELSE NormalizeSegs(segs, i + 1, Append(acc, segs[i]))

RECURSIVE ResolveFrom(_, _, _)
\* The right-to-left loop of path.resolve: arguments are prepended until one
\* is absolute; the working directory is used when none is.
ResolveFrom(args, i, resolved) ==
  LET p == IF i >= 1 THEN args[i] ELSE Cwd IN
  IF Len(p) = 0 THEN ResolveFrom(args, i - 1, resolved)
  ELSE IF p[1] = Sep THEN p \o <<Sep>> \o resolved
  ELSE ResolveFrom(args, i - 1, p \o <<Sep>> \o resolved)

\* The segments of path.resolve(...args)
ResolveSegs(args) == NormalizeSegs(Split(ResolveFrom(args, Len(args), <<>>)), 1, <<>>)

\* path.resolve(...args): '/' followed by the normalized segments
PathResolve(args) == <<Sep>> \o Join(ResolveSegs(args))

(***************************************************************************)
(* tools/files.mjs: resolveInside.  An outcome is a record: st is "ok" or  *)
(* "throw" (and "pending" before the call has run).                        *)
(***************************************************************************)
Pending == [st |-> "pending"]

Thrown(msg) == [st |-> "throw", error |-> msg]

\* A slip: the resolved path handed back without the containment test
resolveInsideUnchecked(workspace, targetPath) ==
  [st |-> "ok", abs |-> PathResolve(<<PathResolve(<<workspace>>), targetPath>>)]

resolveInside(workspace, targetPath) ==
  LET root == PathResolve(<<workspace>>)
      abs  == PathResolve(<<root, targetPath>>)
  IN IF abs # root /\ ~StartsWith(abs, root \o <<Sep>>)
       THEN Thrown("Path escapes workspace")
       ELSE [st |-> "ok", abs |-> abs]

(***************************************************************************)
(* unnamed/part_003: ensureInWorkspace, the resolver of the earlier file   *)
(* accessor.                                                               *)
(***************************************************************************)
ensureInWorkspace(workspace, targetPath) ==
  LET resolved == PathResolve(<<workspace, targetPath>>) IN
  IF ~StartsWith(resolved, PathResolve(<<workspace>>))
    THEN Thrown("is outside workspace")
    ELSE [st |-> "ok", abs |-> resolved]

(***************************************************************************)
(* Text and bytes.  A JavaScript string is a sequence of characters; "hs"  *)
(* is a lone surrogate and "fffd" the replacement character U+FFFD.  A     *)
(* file holds bytes: writing a string encodes it as UTF-8 and reading      *)
(* decodes it, which maps a lone surrogate and every ill-formed byte       *)
(* sequence to U+FFFD.                                                     *)
(***************************************************************************)
RECURSIVE Utf8Encode(_)
Utf8Encode(str) ==
  IF Len(str) = 0 THEN <<>>
  ELSE (IF Head(str) \in {"hs", "fffd"} THEN <<"EF", "BF", "BD">> ELSE <<Head(str)>>)
       \o Utf8Encode(Tail(str))

RECURSIVE DecodeFrom(_, _)
DecodeFrom(b, i) ==
  IF i > Len(b) THEN <<>>
  ELSE IF b[i] = "EF" THEN
    IF i + 2 <= Len(b) /\ b[i + 1] = "BF" /\ b[i + 2] = "BD"
      THEN <<"fffd">> \o DecodeFrom(b, i + 3)
    ELSE IF i + 1 <= Len(b) /\ b[i + 1] = "BF"
      THEN <<"fffd">> \o DecodeFrom(b, i + 2)
    ELSE <<"fffd">> \o DecodeFrom(b, i + 1)
  ELSE IF b[i] \in {"BF", "BD"} THEN <<"fffd">> \o DecodeFrom(b, i + 1)
  ELSE <<b[i]>> \o DecodeFrom(b, i + 1)

\* buf.toString('utf8')
Utf8Decode(b) == DecodeFrom(b, 1)

\* data.slice(0, n)
Slice(b, n) == SubSeq(b, 1, IF n < Len(b) THEN n ELSE Len(b))

(***************************************************************************)
(* The file system: a function from absolute paths to nodes.               *)
(***************************************************************************)
Absent == [kind |-> "absent", data |-> <<>>]

Dir == [kind |-> "dir", data |-> <<>>]

File(bytes) == [kind |-> "file", data |-> bytes]

Node(f, p) == IF p \in DOMAIN f THEN f[p] ELSE Absent

Put(f, p, n) == [q \in DOMAIN f \cup {p} |-> IF q = p THEN n ELSE f[q]]

Remove(f, p) == [q \in DOMAIN f \ {p} |-> f[q]]

\* path.dirname of a resolved path
Dirname(abs) ==
  LET segs == ResolveSegs(<<abs>>) IN
  <<Sep>> \o Join(SubSeq(segs, 1, IF Len(segs) = 0 THEN 0 ELSE Len(segs) - 1))

\* The path and every ancestor of it, the root '/' included
Ancestors(abs) ==
  LET segs == ResolveSegs(<<abs>>) IN
  { <<Sep>> \o Join(SubSeq(segs, 1, k)) : k \in 0..Len(segs) }

\* fs.mkdir(dir, { recursive: true }): creates the missing directories of the
\* chain; throws when a component of the chain is a file.
MkdirRecursive(f, dir) ==
  IF \E q \in Ancestors(dir) : Node(f, q).kind = "file"
    THEN Thrown("ENOTDIR")
    ELSE [st |-> "ok",
          fs |-> [q \in DOMAIN f \cup Ancestors(dir) |->
                    IF q \in DOMAIN f THEN f[q] ELSE Dir]]

\* fs.readFile(abs): the bytes of a file; throws when there is none
FsReadFile(f, abs) ==
  IF Node(f, abs).kind = "file" THEN [st |-> "ok", data |-> Node(f, abs).data]
  ELSE IF Node(f, abs).kind = "dir" THEN Thrown("EISDIR")
  ELSE Thrown("ENOENT")

(***************************************************************************)
(* tools/files.mjs: readFile.  The value returned is a string.             *)
(***************************************************************************)
\* defaults.byteLimit || 120000
ByteLimit == 120000

JsString(str) == [type |-> "string", str |-> str]

readFile(f, workspace, filePath, byteLimit) ==
  LET r == resolveInside(workspace, filePath) IN
  IF r.st = "throw" THEN r
  ELSE LET d == FsReadFile(f, r.abs) IN
       IF d.st = "throw" THEN d
       ELSE [st |-> "ok",
             value |-> JsString(Utf8Decode(IF byteLimit # 0
                                            THEN Slice(d.data, byteLimit)
                                            ELSE d.data))]

(***************************************************************************)
(* tools/files.mjs: applyPatch, one step per awaited operation.            *)
(***************************************************************************)
\* process.env.WORKSPACE || defaults.workspace
Workspace == <<"/", "w">>

\* The approve argument toolImpls.apply_patch passes to applyPatch
ApproveArg(flag, gating) == flag /\ (gating = "absent" \/ gating = "false")

\* Diff.createPatch(filePath, oldContent, newContent): the header names the
\* file; there is a hunk when the contents differ.
createPatch(filePath, oldContent, newContent) ==
  [file  |-> filePath,
   hunks |-> IF oldContent = newContent THEN <<>>
             ELSE <<[del |-> oldContent, add |-> newContent]>>]

NoDiff == [file |-> <<>>, hunks |-> <<>>]

\* filePath.replace(/[\\/]/g, '_')
Sanitize(filePath) ==
  [i \in 1..Len(filePath) |-> IF filePath[i] \in {"/", "\\"} THEN "_" ELSE filePath[i]]

\* `${timestamp}-${sanitized}.patch` in patchesDir.  The timestamp has a fixed
\* width and the name holds no separator, so the name is this triple and
\* resolveInside(patchesDir, patchName) is patchesDir/patchName.
PatchName(timestamp, filePath) ==
  [ts |-> timestamp, frag |-> Sanitize(filePath), ext |-> "patch"]

\* A slip: the full copy saved under the diff's name
FullNameAsPatch(timestamp, filePath) ==
  [ts |-> timestamp, frag |-> Sanitize(filePath), ext |-> "patch"]

\* `${timestamp}-${sanitized}.full` in patchesDir
FullName(timestamp, filePath) ==
  [ts |-> timestamp, frag |-> Sanitize(filePath), ext |-> "full"]

NoName == [ts |-> 0, frag |-> <<>>, ext |-> "none"]

\* A slip: the new content written in place, with no temporary file
TmpPathInPlace(abs) == abs

\* `${abs}.tmp.${process.pid}`
TmpPath(abs) == abs \o <<".tmp.pid">>

ApIdle ==
  [pc |-> "idle", filePath |-> <<>>, newContent |-> <<>>, approve |-> FALSE,
   abs |-> <<>>, prior |-> Absent, oldContent |-> <<>>, diffText |-> NoDiff,
   timestamp |-> 0, patchAbs |-> NoName, fullAbs |-> NoName, written |-> {},
   wrote |-> FALSE, tree |-> <<>>]

NoRead == [st |-> "pending"]

\* The record of a finished call: what it was given, how it ended ("ok" or
\* "throw") and in which step, what it returned, the target before and
\* after, and whether the file system is what it was when the call started.
Finished(call, st, fsAfter) ==
  [filePath |-> call.filePath, newContent |-> call.newContent,
   approve |-> call.approve, st |-> st, step |-> call.pc, wrote |-> call.wrote,
   diff |-> call.diffText, patchFile |-> call.patchAbs,
   fullFileArtifact |-> call.fullAbs, written |-> call.written,
   abs |-> call.abs, before |-> call.prior, after |-> Node(fsAfter, call.abs),
   treeKept |-> fsAfter = call.tree]

\* The paths and contents the model hands to apply_patch and read_file
PatchPaths ==
  { <<"f">>, <<"d", "/", "f">>, <<"f", "/", "g">>, <<".">>, <<".", ".", "/", "x">> }

Contents == { <<"a", "b">>, <<"hs">> }

MaxBytesArgs == {0, 1, ByteLimit}

InitialFs ==
  { [p \in {<<Sep>>, Workspace} |-> Dir],
    [p \in {<<Sep>>, Workspace, Workspace \o <<Sep, "f">>} |->
       IF p = Workspace \o <<Sep, "f">> THEN File(<<"a", "b">>) ELSE Dir] }

\* line 48: const abs = resolveInside(workspace, filePath)
ApplyStart ==
  /\ ap.pc = "idle"
  /\ Len(apLog) < MaxCalls
  /\ \E filePath \in PatchPaths, newContent \in Contents :
       LET r    == resolveInside(Workspace, filePath)
           call == [ApIdle EXCEPT !.pc = "resolve",
                                  !.filePath = filePath, !.newContent = newContent,
                                  !.approve = ApproveArg(approveFlag, writeGating),
                                  !.tree = fs]
       IN IF r.st = "throw"
            THEN /\ apLog' = Append(apLog, Finished(call, "throw", fs))
                 /\ ap' = ApIdle
            ELSE /\ ap' = [call EXCEPT !.pc = "ensureParent", !.abs = r.abs,
                                       !.prior = Node(fs, r.abs)]
                 /\ apLog' = apLog
  /\ lastObs' = Pending
  /\ rd' = NoRead
  /\ UNCHANGED <<approveFlag, writeGating, fs, patches, now>>
  /\ UNCHANGED exceptPatch

\* line 49: await ensureParent(abs)
EnsureParent ==
  /\ ap.pc = "ensureParent"
  /\ LET m == MkdirRecursive(fs, Dirname(ap.abs)) IN
       IF m.st = "throw"
         THEN /\ apLog' = Append(apLog, Finished(ap, "throw", fs))
              /\ ap' = ApIdle
              /\ fs' = fs
         ELSE /\ fs' = m.fs
              /\ ap' = [ap EXCEPT !.pc = "readOld"]
              /\ apLog' = apLog
  /\ lastObs' = IF ap'.pc = "idle" THEN Pending ELSE lastObs
  /\ UNCHANGED <<approveFlag, writeGating, patches, now, rd>>
  /\ UNCHANGED exceptPatch

\* lines 51-57: the prior content ('' when it cannot be read), the diff, the
\* clock reading and the artifact names
ReadOld ==
  /\ ap.pc = "readOld"
  /\ \E t \in now..MaxClock :
       LET d   == FsReadFile(fs, ap.abs)
           old == IF d.st = "ok" THEN Utf8Decode(d.data) ELSE <<>>
       IN /\ now' = t
          /\ ap' = [ap EXCEPT !.pc = "writePatch", !.oldContent = old,
                              !.diffText = createPatch(ap.filePath, old, ap.newContent),
                              !.timestamp = t,
                              !.patchAbs = PatchName(t, ap.filePath),
                              !.fullAbs = FullName(t, ap.filePath)]
  /\ UNCHANGED <<approveFlag, writeGating, fs, patches, apLog, lastObs, rd>>
  /\ UNCHANGED exceptPatch

\* lines 58-59: await fs.writeFile(patchAbs, diffText, 'utf8')
WritePatchFile ==
  /\ ap.pc = "writePatch"
  /\ patches' = Put(patches, ap.patchAbs, ap.diffText)
  /\ ap' = [ap EXCEPT !.pc = "writeFull", !.written = @ \cup {ap.patchAbs}]
  /\ UNCHANGED <<approveFlag, writeGating, fs, now, apLog, lastObs, rd>>
  /\ UNCHANGED exceptPatch

\* lines 62-64: await fs.writeFile(fullAbs, newContent, 'utf8')
WriteFullFile ==
  /\ ap.pc = "writeFull"
  /\ patches' = Put(patches, ap.fullAbs, Utf8Encode(ap.newContent))
  /\ ap' = [ap EXCEPT !.pc = IF ap.approve THEN "openTmp" ELSE "dryRun",
                      !.written = @ \cup {ap.fullAbs}]
  /\ UNCHANGED <<approveFlag, writeGating, fs, now, apLog, lastObs, rd>>
  /\ UNCHANGED exceptPatch

\* lines 91-102: the dry run returns wrote: false
DryRunReturn ==
  /\ ap.pc = "dryRun"
  /\ apLog' = Append(apLog, Finished(ap, "ok", fs))
  /\ ap' = ApIdle
  /\ lastObs' = IF ap'.pc = "idle" THEN Pending ELSE lastObs
  /\ UNCHANGED <<approveFlag, writeGating, fs, patches, now, rd>>
  /\ UNCHANGED exceptPatch

\* line 72: fs.writeFile(tmp, ...) opens tmp, creating or truncating it
OpenTmp ==
  /\ ap.pc = "openTmp"
  /\ IF Node(fs, TmpPath(ap.abs)).kind = "dir"
       THEN /\ apLog' = Append(apLog, Finished(ap, "throw", fs))
            /\ ap' = ApIdle
            /\ fs' = fs
       ELSE /\ fs' = Put(fs, TmpPath(ap.abs), File(<<>>))
            /\ ap' = [ap EXCEPT !.pc = "writeTmp"]
            /\ apLog' = apLog
  /\ lastObs' = IF ap'.pc = "idle" THEN Pending ELSE lastObs
  /\ UNCHANGED <<approveFlag, writeGating, patches, now, rd>>
  /\ UNCHANGED exceptPatch

\* line 72: fs.writeFile(tmp, ...) writes the bytes, not atomically
WriteTmp ==
  /\ ap.pc = "writeTmp"
  /\ LET bytes == Utf8Encode(ap.newContent)
         have  == Node(fs, TmpPath(ap.abs)).data
     IN IF Len(have) < Len(bytes)
          THEN /\ fs' = Put(fs, TmpPath(ap.abs), File(Append(have, bytes[Len(have) + 1])))
               /\ ap' = ap
          ELSE /\ fs' = fs
               /\ ap' = [ap EXCEPT !.pc = "rename"]
  /\ UNCHANGED <<approveFlag, writeGating, patches, now, apLog, lastObs, rd>>
  /\ UNCHANGED exceptPatch

\* line 73: await fs.rename(tmp, abs), which throws onto a directory
RenameTmp ==
  /\ ap.pc = "rename"
  /\ IF Node(fs, ap.abs).kind = "dir"
       THEN /\ apLog' = Append(apLog, Finished(ap, "throw", fs))
            /\ ap' = ApIdle
            /\ fs' = fs
       ELSE /\ fs' = Remove(Put(fs, ap.abs, Node(fs, TmpPath(ap.abs))), TmpPath(ap.abs))
            /\ ap' = [ap EXCEPT !.pc = "written"]
            /\ apLog' = apLog
  /\ lastObs' = IF ap'.pc = "idle" THEN Pending ELSE lastObs
  /\ UNCHANGED <<approveFlag, writeGating, patches, now, rd>>
  /\ UNCHANGED exceptPatch

\* lines 76-102: git status and fs.access are best effort; wrote = true
ApprovedReturn ==
  /\ ap.pc = "written"
  /\ apLog' = Append(apLog, Finished([ap EXCEPT !.wrote = TRUE], "ok", fs))
  /\ ap' = ApIdle
  /\ lastObs' = IF ap'.pc = "idle" THEN Pending ELSE lastObs
  /\ UNCHANGED <<approveFlag, writeGating, fs, patches, now, rd>>
  /\ UNCHANGED exceptPatch

\* Another process reads the target while the call is in progress
ReaderObserve ==
  /\ ap.pc # "idle"
  /\ lastObs' = Node(fs, ap.abs)
  /\ UNCHANGED <<approveFlag, writeGating, fs, patches, now, ap, apLog, rd>>
  /\ UNCHANGED exceptPatch

\* ai-engineer.mjs lines 94-96: toolImpls.read_file of the path the last
\* apply_patch call was given, before the next tool call.  A read changes
\* nothing it reads, so one read per gap shows them all.
ReadFileCall ==
  /\ ap.pc = "idle"
  /\ rd = NoRead
  /\ Len(apLog) >= 1
  /\ \E maxBytes \in MaxBytesArgs :
       LET filePath == apLog[Len(apLog)].filePath IN
       rd' = [st |-> "done", filePath |-> filePath, maxBytes |-> maxBytes,
              out |-> readFile(fs, Workspace, filePath, maxBytes)]
  /\ UNCHANGED <<approveFlag, writeGating, fs, patches, now, ap, apLog, lastObs>>
  /\ UNCHANGED exceptPatch

(***************************************************************************)
(* JavaScript values, as far as normalizeResponse looks at them.  A value  *)
(* is a record tagged t; an object carries its properties as fields, and a *)
(* property it lacks reads as undefined.  Threw is what an expression that *)
(* throws evaluates to; it propagates through every operator.              *)
(***************************************************************************)
Undef == [t |-> "undefined"]

Null == [t |-> "null"]

Num(n) == [t |-> "number", v |-> n]

Str(str) == [t |-> "string", v |-> str]

Arr(elems) == [t |-> "array", a |-> elems]

EmptyObj == [t |-> "object"]

Threw == [t |-> "throw"]

Nullish(v) == v.t \in {"undefined", "null"}

IsArray(v) == v.t = "array"

TypeofString(v) == v.t = "string"

\* Boolean(v)
Truthy(v) ==
  \/ v.t \in {"object", "array"}
  \/ v.t = "string" /\ v.v # <<>>
  \/ v.t = "number" /\ v.v # 0

\* v.k: throws on undefined and null
Get(v, k) ==
  IF v = Threw \/ Nullish(v) THEN Threw
  ELSE IF v.t = "object" /\ k \in DOMAIN v THEN v[k]
  ELSE Undef

\* A slip: the property read without the optional chaining
OptGetUnguarded(v, k) == Get(v, k)

\* v?.k
OptGet(v, k) == IF Nullish(v) THEN Undef ELSE Get(v, k)

\* v?.[0]
OptIndex0(v) ==
  IF v = Threw THEN Threw
  ELSE IF Nullish(v) THEN Undef
  ELSE IF v.t = "array" THEN (IF Len(v.a) = 0 THEN Undef ELSE v.a[1])
  ELSE IF v.t = "string" THEN (IF Len(v.v) = 0 THEN Undef ELSE Str(<<v.v[1]>>))
  ELSE Undef

\* v ?? d
Coalesce(v, d) == IF Nullish(v) THEN d ELSE v

\* v || d
OrElse(v, d) == IF v = Threw THEN Threw ELSE IF Truthy(v) THEN v ELSE d

RECURSIVE JoinLines(_)
\* strs.join('\n')
JoinLines(strs) ==
  IF Len(strs) = 0 THEN <<>>
  ELSE IF Len(strs) = 1 THEN strs[1]
  ELSE strs[1] \o <<"\n">> \o JoinLines(Tail(strs))

RECURSIVE TextsOf(_)
\* parts.filter(p => typeof p?.text === 'string').map(p => p.text)
TextsOf(parts) ==
  IF Len(parts) = 0 THEN <<>>
  ELSE (IF TypeofString(OptGet(Head(parts), "text"))
          THEN <<Get(Head(parts), "text").v>> ELSE <<>>)
       \o TextsOf(Tail(parts))

RECURSIVE CallsOf(_)
\* parts.map(p => p?.functionCall).filter(Boolean)
\*      .map(fc => ({ name: fc.name, args: fc.args || {} }))
CallsOf(parts) ==
  IF Len(parts) = 0 THEN <<>>
  ELSE LET fc == OptGet(Head(parts), "functionCall") IN
       (IF Truthy(fc)
          THEN <<[t |-> "object", name |-> Get(fc, "name"),
                  args |-> OrElse(Get(fc, "args"), EmptyObj)]>>
          ELSE <<>>)
       \o CallsOf(Tail(parts))

Normalized(text, functionCalls) ==
  [st |-> "ok", text |-> text, functionCalls |-> functionCalls]

\* ai-engineer.mjs: normalizeResponse
normalizeResponse(resp) ==
  IF Truthy(resp) /\ (TypeofString(Get(resp, "text"))
                      \/ IsArray(OptGet(resp, "functionCalls")))
    THEN Normalized(Coalesce(Get(resp, "text"), Str(<<>>)),
                    Coalesce(Get(resp, "functionCalls"), Arr(<<>>)))
    ELSE LET cand  == OptIndex0(OptGet(OptGet(resp, "response"), "candidates"))
             parts == Coalesce(OptGet(OptGet(cand, "content"), "parts"), Arr(<<>>))
         IN IF parts = Threw THEN Thrown("TypeError: property of null or undefined")
            ELSE IF ~IsArray(parts) THEN Thrown("TypeError: parts.filter is not a function")
            ELSE Normalized(Str(JoinLines(TextsOf(parts.a))), Arr(CallsOf(parts.a)))

(***************************************************************************)
(* The responses handed to normalizeResponse.  A logical response is a     *)
(* list of parts; the nested envelope carries the parts themselves, the    *)
(* flat one carries their text joined by line breaks and their function    *)
(* calls, each property left out when there is nothing to carry.           *)
(***************************************************************************)
TextPart(str) == [t |-> "object", text |-> Str(str)]

CallPart(fc) == [t |-> "object", functionCall |-> fc]

\* A function call the backend sends: args may be left out
CallNoArgs(name) == [t |-> "object", name |-> Str(name)]

CallWithArgs(name, args) == [t |-> "object", name |-> Str(name), args |-> args]

LogicalParts ==
  { TextPart(<<>>), TextPart(<<"x">>),
    CallPart(CallNoArgs("git_diff")),
    CallPart(CallWithArgs("run_tests", EmptyObj)),
    CallPart(CallWithArgs("read_file", [t |-> "object", filepath |-> Str(<<"f">>)])) }

LogicalResponses == UNION {[1..k -> LogicalParts] : k \in 0..MaxParts}

RECURSIVE PartCalls(_)
PartCalls(parts) ==
  IF Len(parts) = 0 THEN <<>>
  ELSE (IF "functionCall" \in DOMAIN Head(parts)
          THEN <<Head(parts).functionCall>> ELSE <<>>) \o PartCalls(Tail(parts))

RECURSIVE PartTexts(_)
PartTexts(parts) ==
  IF Len(parts) = 0 THEN <<>>
  ELSE (IF "text" \in DOMAIN Head(parts) THEN <<Head(parts).text.v>> ELSE <<>>)
       \o PartTexts(Tail(parts))

NestedShape(parts) ==
  [t |-> "object",
   response |-> [t |-> "object",
                 candidates |-> Arr(<<[t |-> "object",
                                       content |-> [t |-> "object",
                                                    parts |-> Arr(parts)]]>>)]]

FlatShape(parts) ==
  [t |-> "object",
   text |-> IF PartTexts(parts) = <<>> THEN Undef ELSE Str(JoinLines(PartTexts(parts))),
   functionCalls |-> IF PartCalls(parts) = <<>> THEN Undef ELSE Arr(PartCalls(parts))]

\* Raw responses of other shapes: at every level of the envelope the value
\* is missing, null, a primitive or an object one level deeper.
RawParts ==
  { Undef, Null, Num(0), Arr(<<>>), Arr(<<Null>>), Arr(<<Num(1)>>),
    Arr(<<EmptyObj>>), Arr(<<[t |-> "object", text |-> Num(1), functionCall |-> Null]>>) }

RawContent == {Undef, Null, Num(1)} \cup {[t |-> "object", parts |-> x] : x \in RawParts}

RawCandidate == {Undef, Null, Num(1)} \cup {[t |-> "object", content |-> x] : x \in RawContent}

RawCandidates ==
  {Undef, Null, Num(1), Arr(<<>>), EmptyObj} \cup {Arr(<<x>>) : x \in RawCandidate}

RawResponse ==
  {Undef, Null, Num(1)} \cup {[t |-> "object", candidates |-> x] : x \in RawCandidates}

RawResponses ==
  {Undef, Null, Num(0), Str(<<"x">>), EmptyObj}
  \cup {[t |-> "object", text |-> x, functionCalls |-> y, response |-> z] :
          x \in {Undef, Null, Num(1)}, y \in {Undef, Null, EmptyObj}, z \in RawResponse}

NormParked ==
  /\ nParts = <<>>
  /\ nRaw = Undef
  /\ nOutFlat = Pending
  /\ nOutNested = Pending
  /\ nOutRaw = Pending

(***************************************************************************)
(* modelTurn and the model identifier it calls the backend with.           *)
(***************************************************************************)
Primary == "gemini-2.5-pro"

Fallback == "gemini-2.5-flash"

\* modelFlag || defaults.model || 'gemini-2.5-pro'
ConfiguredModels == {Primary, Fallback, "custom-model"}

MaxAttempts == 3

BackoffMs == 400

NotFound == 404

\* The status of an error that carries none
NoStatus == 0

\* e.status of what generateContent raises
Statuses == {NotFound, 500, 503, NoStatus}

Err(kind, status) == [kind |-> kind, status |-> status]

NoErr == Err("none", NoStatus)

ApiErr(status) == Err("api", status)

EmptyErr == Err("Empty model response; will retry", NoStatus)

UnusableErr == Err("Model did not return usable output", NoStatus)

\* What normalizeResponse throws, caught at line 161
TypeErr == Err("TypeError", NoStatus)

\* v.length === 0
LengthIsZero(v) ==
  \/ v.t = "array" /\ Len(v.a) = 0
  \/ v.t = "string" /\ Len(v.v) = 0

\* !norm.text && (!norm.functionCalls || norm.functionCalls.length === 0)
IsEmptyNorm(norm) ==
  /\ ~Truthy(norm.text)
  /\ (~Truthy(norm.functionCalls) \/ LengthIsZero(norm.functionCalls))

\* e.status === 404 && model !== 'gemini-2.5-flash'
FallsBack(e, m) == e.status = NotFound /\ m # Fallback

\* A slip: a 404 on any other model puts the primary back
ModelAfterNotFoundKeepsPrimary(m) == IF m = Primary THEN Fallback ELSE Primary

\* model = 'gemini-2.5-flash'
ModelAfterNotFound(m) == Fallback

\* A slip: the same wait after every attempt
BackoffDelayFlat(attempt) == BackoffMs

\* setTimeout(r, 400 * attempt)
BackoffDelay(attempt) == BackoffMs * attempt

\* What the backend answers with
TurnResponses ==
  { FlatShape(<<TextPart(<<"x">>)>>),
    NestedShape(<<CallPart(CallNoArgs("git_diff"))>>),
    EmptyObj,
    NestedShape(<<>>),
    [t |-> "object", response |-> [t |-> "object",
       candidates |-> Arr(<<[t |-> "object",
                             content |-> [t |-> "object", parts |-> Num(0)]]>>)]] }

Raised(e) == [kind |-> "raise", status |-> e.status]

Returned200 == [kind |-> "return", status |-> 200]

MtIdle == [pc |-> "idle", attempt |-> 0, lastErr |-> NoErr]

NoSwitch == [done |-> FALSE, calls |-> 0, turn |-> 0]

TurnParked ==
  /\ model = Primary
  /\ mt = MtIdle
  /\ calls = <<>>
  /\ tOutcomes = <<>>
  /\ tWaits = <<>>
  /\ turnOut = Pending
  /\ turn = 0
  /\ sw = NoSwitch

(***************************************************************************)
(* tools/cmd.mjs: runCmd and runTests.  Output is a sequence of tokens, an *)
(* ANSI escape sequence being the one token "ESC".                         *)
(***************************************************************************)
TrimLimit == 20000

TestTimeoutMs == 600000

\* trim(str, n = 20000)
TrimTo(str, n) == IF Len(str) > n THEN SubSeq(str, 1, n) ELSE str

RECURSIVE stripAnsi(_)
stripAnsi(str) ==
  IF Len(str) = 0 THEN <<>>
  ELSE (IF Head(str) = "ESC" THEN <<>> ELSE <<Head(str)>>) \o stripAnsi(Tail(str))

Outputs == {<<>>, <<"a">>, <<"ESC", "a">>}

\* What execa does with the command.  It resolves on exit code 0 and
\* rejects otherwise; the error of a command that exited non-zero carries
\* that code, the error of one that timed out, was killed or never started
\* carries none, and one that never started has no output either.
Exec(kind, exitCode, stdout, stderr) ==
  [kind |-> kind, exitCode |-> exitCode, stdout |-> stdout, stderr |-> stderr]

ExecOutcomes(timeout_ms) ==
  {Exec("exited-zero", Num(0), Str(o), Str(e)) : o \in Outputs, e \in Outputs}
  \cup {Exec("exited-nonzero", Num(c), Str(o), Str(e)) :
          c \in {1, 2}, o \in Outputs, e \in Outputs}
  \cup {Exec("killed", Undef, Str(o), Str(e)) : o \in Outputs, e \in Outputs}
  \cup {Exec("timed-out", Undef, Str(o), Str(e)) :
          o \in (IF timeout_ms > 0 THEN Outputs ELSE {}), e \in Outputs}
  \cup {Exec("failed-to-start", Undef, Undef, Undef)}

\* A slip: a command that left no exit code reported as a success
ExitCodeOfErrorZero(err) == Coalesce(err.exitCode, Num(0))

\* err.exitCode ?? 1
ExitCodeOfError(err) == Coalesce(err.exitCode, Num(1))

CmdResult(exitCode, stdout, stderr) ==
  [st |-> "ok", exitCode |-> exitCode, stdout |-> stdout, stderr |-> stderr]

\* cmd.mjs: runCmd, given what execa did
runCmd(exec) ==
  IF exec.kind = "exited-zero"
    THEN CmdResult(exec.exitCode,
                   Str(TrimTo(stripAnsi(exec.stdout.v), TrimLimit)),
                   Str(TrimTo(stripAnsi(exec.stderr.v), TrimLimit)))
    ELSE CmdResult(ExitCodeOfError(exec),
                   Str(TrimTo(stripAnsi(OrElse(exec.stdout, Str(<<>>)).v), TrimLimit)),
                   Str(TrimTo(stripAnsi(OrElse(exec.stderr, Str(<<>>)).v), TrimLimit)))

\* cmd.mjs: runTests delegates to runCmd
runTests(exec) == runCmd(exec)

\* timeout_ms as the callers give it: run_cmd's default 0, run_tests'
\* default 600000, or a short one
Timeouts == {0, 1, TestTimeoutMs}

NoExec == Exec("none", Undef, Undef, Undef)

CmdParked ==
  /\ cmTimeout = 0
  /\ cmExec = NoExec
  /\ cmVia = "none"
  /\ cmOut = Pending

(***************************************************************************)
(* tools/files.mjs: searchFiles.  The output of rg is a string over a      *)
(* match character and the line break; each non-empty line is one match.   *)
(***************************************************************************)
Newline == "\n"

RgChars == {"m", Newline}

RECURSIVE SplitLinesFrom(_, _, _, _)
SplitLinesFrom(s, i, cur, acc) ==
  IF i > Len(s) THEN Append(acc, cur)
  ELSE IF s[i] = Newline THEN SplitLinesFrom(s, i + 1, <<>>, Append(acc, cur))
  ELSE SplitLinesFrom(s, i + 1, Append(cur, s[i]), acc)

\* stdout.split('\n')
SplitLines(s) == SplitLinesFrom(s, 1, <<>>, <<>>)

\* lines.filter(Boolean)
FilterBoolean(lines) == SelectSeq(lines, LAMBDA l : l # <<>>)

\* lines.slice(0, n), n >= 0
SliceFirst(lines, n) == SubSeq(lines, 1, IF n < Len(lines) THEN n ELSE Len(lines))

Rg(kind, stdout) == [kind |-> kind, stdout |-> stdout]

NoRg == Rg("none", Undef)

\* What execa does with rg.  rg exits 0 when it printed matches, 1 when
\* there are none, 2 when it hit an error (it may have printed matches
\* before that); execa rejects on 1 and 2, and on rg not starting.
RgOutcomes ==
  {Rg("matched", Str(o)) :
     o \in {x \in StrUpTo(RgChars, MaxOutLen) : FilterBoolean(SplitLines(x)) # <<>>}}
  \cup {Rg("no-match", Str(<<>>))}
  \cup {Rg("error", Str(o)) : o \in StrUpTo(RgChars, MaxOutLen)}
  \cup {Rg("failed-to-start", Undef)}

SearchResult(text) == [st |-> "ok", text |-> text]

\* files.mjs: searchFiles, given what execa did with rg
searchFiles(exec, maxResults) ==
  IF exec.kind = "matched"
    THEN SearchResult(JoinLines(SliceFirst(FilterBoolean(SplitLines(exec.stdout.v)),
                                            maxResults)))
    ELSE SearchResult(IF Truthy(exec.stdout) THEN exec.stdout.v ELSE <<>>)

SearchParked ==
  /\ sfMax = 0
  /\ sfExec = NoRg
  /\ sfOut = Pending

(***************************************************************************)
(* ai-engineer.mjs: the session log, the tool dispatch, executeToolLoop,   *)
(* runTask and the entrypoint.  A text is a sequence of tokens: "s" is an  *)
(* ordinary character, "KEY" a name the redaction pattern looks for (KEY,  *)
(* PASSWORD, TOKEN ...), "=", " " a white space and "q" a quote.           *)
(***************************************************************************)
DefaultMaxToolIters == 100

Redacted == "=[redacted]"

PlainText == <<"s">>

SecretText == <<"KEY", "=", "s">>

BlankText == <<" ">>

RECURSIVE SkipSpaces(_, _)
\* \s*
SkipSpaces(s, i) == IF i <= Len(s) /\ s[i] = " " THEN SkipSpaces(s, i + 1) ELSE i

RECURSIVE SkipValue(_, _)
\* [^"'\s]+
SkipValue(s, i) ==
  IF i <= Len(s) /\ s[i] \notin {"q", " "} THEN SkipValue(s, i + 1) ELSE i

\* Where a match of \s*=\s*["']?[^"'\s]+ that starts at i ends, 0 if none
ValueEnd(s, i) ==
  LET eq == SkipSpaces(s, i) IN
  IF eq > Len(s) \/ s[eq] # "=" THEN 0
  ELSE LET v == SkipSpaces(s, eq + 1)
           w == IF v <= Len(s) /\ s[v] = "q" THEN v + 1 ELSE v
       IN IF SkipValue(s, w) > w THEN SkipValue(s, w) ELSE 0

RECURSIVE ReplaceFrom(_, _)
\* s.replace(/(...KEY|PASS(WORD)?|TOKEN)\s*=\s*["']?[^"'\s]+/gi, '$1=[redacted]')
ReplaceFrom(s, i) ==
  IF i > Len(s) THEN <<>>
  ELSE IF s[i] = "KEY" /\ ValueEnd(s, i + 1) # 0
    THEN <<"KEY", Redacted>> \o ReplaceFrom(s, ValueEnd(s, i + 1))
  ELSE <<s[i]>> \o ReplaceFrom(s, i + 1)

\* A tool result: a string, an object or the {error} of the dispatcher
Result(form, body) == [form |-> form, body |-> body]

\* JSON.stringify of an object holding the text
JsonStringify(body) == <<"{", "q">> \o body \o <<"q", "}">>

\* redact(str): typeof str === 'string' ? str : JSON.stringify(str)
redact(res) ==
  ReplaceFrom(IF res.form = "string" THEN res.body ELSE JsonStringify(res.body), 1)

\* out = (resp.text ?? '').trim()
TrimText(text) == SelectSeq(text, LAMBDA c : c # " ")

\* A turn of the history and a line of the session log
Entry(role, kind, name, body) == [role |-> role, kind |-> kind, name |-> name, body |-> body]

ToolNames ==
  { "search_files", "read_file", "run_tests", "apply_patch",
    "git_make_branch", "git_commit", "git_diff", "run_cmd" }

\* toolImpls[fc.name]: toolImpls is an object literal, so a name it does not
\* define itself is looked up on Object.prototype
Lookup(name) ==
  IF name \in ToolNames THEN "tool"
  ELSE IF name \in {"constructor", "toString", "valueOf"} THEN "inherited"
  ELSE "undefined"

FunctionCall(name, args) == [name |-> name, args |-> args]

\* A slip: the result pushed before the call it answers
HistoryTurnsResultFirst(fc, res) ==
  <<Entry("user", "functionResponse", fc.name, <<res.form>> \o res.body),
    Entry("model", "functionCall", fc.name, fc.args)>>

\* lines 213-214: history.push of the call, then of its functionResponse
HistoryTurns(fc, res) ==
  <<Entry("model", "functionCall", fc.name, fc.args),
    Entry("user", "functionResponse", fc.name, <<res.form>> \o res.body)>>

\* What the implementation found for a call returns (kind "return") or
\* throws (kind "throw")
Outcome(kind, res, wrote) == [kind |-> kind, res |-> res, wrote |-> wrote]

ImplOutcomes(fc) ==
  IF fc.name = "read_file"
    THEN { Outcome("return", Result("string", SecretText), FALSE),
           Outcome("throw", Result("error", <<"Error: Path escapes workspace">>), FALSE),
           Outcome("throw", Result("error", <<"Error: ENOENT">>), FALSE) }
  ELSE IF fc.name = "apply_patch"
    THEN { Outcome("return", Result("object", PlainText), TRUE),
           Outcome("return", Result("object", PlainText), FALSE),
           Outcome("throw", Result("error", <<"Error: Path escapes workspace">>), FALSE) }
  ELSE IF fc.name = "git_commit"
    THEN { Outcome("return", Result("object", <<"Committed">>), FALSE),
           Outcome("throw", Result("error", <<"Error: not a git repository">>), FALSE),
           Outcome("throw", Result("error", <<"Error: nothing to commit">>), FALSE) }
  ELSE IF fc.name = "run_cmd"
    THEN { Outcome("return", Result("object", PlainText), FALSE) }
  ELSE \* Object(args) hands the arguments back
       { Outcome("return", Result("object", fc.args), FALSE) }

\* A slip: the failure of a tool let through
DispatchResultRethrown(outcome) == outcome

\* try { result = await impl(fc.args || {}) } catch (e) { result = { error: String(e) } }
DispatchResult(outcome) ==
  IF outcome.kind = "throw"
    THEN Outcome("return", Result("error", outcome.res.body), outcome.wrote)
    ELSE outcome

Response(text, functionCalls) == [text |-> text, functionCalls |-> functionCalls]

\* What modelTurn returns: never an empty text with no function call
Responses ==
  {Response(t, <<>>) : t \in {PlainText, SecretText, BlankText}}
  \cup {Response(<<>>, <<FunctionCall(n, PlainText)>>) :
          n \in {"read_file", "apply_patch", "git_commit", "deploy", "constructor"}}
  \cup {Response(<<>>, <<FunctionCall("run_cmd", SecretText)>>),
        Response(<<>>, <<FunctionCall("deploy", PlainText), FunctionCall("read_file", PlainText)>>),
        Response(<<>>, <<FunctionCall("git_commit", PlainText), FunctionCall("deploy", SecretText)>>),
        Response(<<>>, <<FunctionCall("apply_patch", PlainText), FunctionCall("read_file", SecretText)>>)}

\* A slip: the test made after the increment
LoopConditionInclusive(iterations, maxIters) == iterations <= maxIters

\* while (iterations++ < maxIters): the test
LoopCondition(iterations, maxIters) == iterations < maxIters

\* while (iterations++ < maxIters): the increment
NextIterations(iterations) == iterations + 1

\* A slip: the pass that runs out of iterations throws
AfterLoopThrows(untilDone) == "aborted"

\* A slip: the verification entered whether --until-done was given or not
AfterLoopVerifies(untilDone) == "verify"

\* executeToolLoop returns; runTask goes on at line 237
AfterLoop(untilDone) == IF untilDone THEN "verify" ELSE "done"

\* A slip: the failure of a model turn taken for the end of the pass
AfterTurnThrowsCaught(untilDone) == IF untilDone THEN "verify" ELSE "done"

\* modelTurn throws at line 189: neither executeToolLoop nor runTask (whose
\* try of lines 238-251 holds the verification only) catches it
AfterTurnThrows(untilDone) == "aborted"

\* A slip: any verification result taken for a success
VerifyPassedAlways(testRes) == TRUE

\* testRes && testRes.exitCode === 0
VerifyPassed(testRes) == testRes.exitCode = Num(0)

\* What the verification command does
VerifyExecs ==
  { Exec("exited-zero", Num(0), Str(PlainText), Str(<<>>)),
    Exec("exited-nonzero", Num(1), Str(PlainText), Str(SecretText)),
    Exec("timed-out", Undef, Str(<<>>), Str(PlainText)) }

\* The process: where it is, the iterations counter of the pass, the
\* function calls of the response still to dispatch
Proc(pc, iterations, queue) == [pc |-> pc, iterations |-> iterations, queue |-> queue]

NoCall == [name |-> "", lookup |-> "none", implRan |-> FALSE, threw |-> FALSE]

NoVerify == CmdResult(Undef, Str(<<>>), Str(<<>>))

\* lines 181-183: the turn history starts with
BaseInstruction == Entry("user", "text", "", <<>>)

\* The last turn pushed to history before the turns lHist holds: its role,
\* kind and tool name
TurnBeforeWindow(hist, prev) ==
  IF Len(hist) > 0 THEN [hist[Len(hist)] EXCEPT !.body = <<>>] ELSE prev

\* What has been seen of the task so far
TaskStart ==
  [turnsInPass |-> 0, allTools |-> TRUE, exhausted |-> FALSE, passes |-> 1,
   verifs |-> 0, verifsInTask |-> 0, testRes |-> NoVerify, turnAfterVerify |-> FALSE,
   wrote |-> FALSE, noWritePasses |-> 0, last |-> NoCall, turnFailed |-> FALSE,
   calls |-> <<>>, prevTurn |-> BaseInstruction]

LoopParked ==
  /\ lUntilDone = FALSE
  /\ lMaxToolIters = Num(0)
  /\ lMode = "one-shot"
  /\ lp = Proc("entry", 0, <<>>)
  /\ lHist = <<>>
  /\ lLog = <<>>
  /\ lSeen = TaskStart
  /\ lExit = [exited |-> FALSE, code |-> 0]

(***************************************************************************)
(* ai-engineer.mjs: the entrypoint with its readline interface.  Every     *)
(* line event calls the async handler of line 272, and nothing awaits the  *)
(* promise it returns: a runTask invocation is suspended at each of its    *)
(* awaits, and the event loop runs whatever is ready in the meantime.      *)
(***************************************************************************)
\* A runTask invocation: the await it is suspended at, the iterations
\* counter of its pass, the function calls of the response still to
\* dispatch, and whether its verification exited with code 0
Run(pc, iterations, queue, passed) ==
  [pc |-> pc, iterations |-> iterations, queue |-> queue, passed |-> passed]

\* What modelTurn returns to an invocation
ReplResponses ==
  { Response(PlainText, <<>>),
    Response(BlankText, <<>>),
    Response(<<>>, <<FunctionCall("apply_patch", PlainText)>>),
    Response(<<>>, <<FunctionCall("deploy", PlainText), FunctionCall("read_file", PlainText)>>) }

\* cmd = line.trim(): empty, exit or quit, or a directive
ReplLines == {"", "exit", "task"}

\* The last turn pushed to the shared history and the invocation that pushed it
Pushed(run, kind) == [run |-> run, kind |-> kind]

ReplParked ==
  /\ replMode = "one-shot"
  /\ replUntilDone = FALSE
  /\ replMaxToolIters = Num(0)
  /\ replLines = 0
  /\ replRuns = <<>>
  /\ replLast = Pushed(0, "baseInstruction")
  /\ replExit = [exited |-> FALSE, code |-> 0]

ResolveParked == rRoot = <<>> /\ rPath = <<>> /\ rOut = Pending /\ rEnsured = Pending

PatchParked ==
  /\ approveFlag = FALSE
  /\ writeGating = "absent"
  /\ fs = <<>>
  /\ patches = <<>>
  /\ now = 0
  /\ ap = ApIdle
  /\ apLog = <<>>
  /\ lastObs = Pending
  /\ rd = NoRead

InitPatch ==
  /\ ReplParked
  /\ LoopParked
  /\ SearchParked
  /\ CmdParked
  /\ TurnParked
  /\ ResolveParked
  /\ NormParked
  /\ approveFlag \in BOOLEAN
  /\ writeGating \in {"absent", "false", "true"}
  /\ fs \in InitialFs
  /\ patches = <<>>
  /\ now = 0
  /\ ap = ApIdle
  /\ apLog = <<>>
  /\ lastObs = Pending
  /\ rd = NoRead

NextPatch ==
  \/ ApplyStart
  \/ EnsureParent
  \/ ReadOld
  \/ WritePatchFile
  \/ WriteFullFile
  \/ DryRunReturn
  \/ OpenTmp
  \/ WriteTmp
  \/ RenameTmp
  \/ ApprovedReturn
  \/ ReaderObserve
  \/ ReadFileCall

SpecPatch == InitPatch /\ [][NextPatch]_vars

(***************************************************************************)
(* The resolver applied to every root and path within the bounds.          *)
(***************************************************************************)
InitResolve ==
  /\ ReplParked
  /\ LoopParked
  /\ SearchParked
  /\ CmdParked
  /\ TurnParked
  /\ PatchParked
  /\ NormParked
  /\ rRoot \in StrUpTo(PathChars, MaxRootLen) \ {<<>>}
  /\ rPath \in StrUpTo(PathChars, MaxPathLen)
  /\ rOut = Pending
  /\ rEnsured = Pending

ResolveCall ==
  /\ rOut = Pending
  /\ rOut' = resolveInside(rRoot, rPath)
  /\ UNCHANGED <<rRoot, rPath, rEnsured>>
  /\ UNCHANGED exceptResolve

\* The resolver of the earlier file accessor, given the same arguments
EnsureCall ==
  /\ rEnsured = Pending
  /\ rEnsured' = ensureInWorkspace(rRoot, rPath)
  /\ UNCHANGED <<rRoot, rPath, rOut>>
  /\ UNCHANGED exceptResolve

NextResolve ==
  \/ ResolveCall
  \/ EnsureCall

SpecResolve == InitResolve /\ [][NextResolve]_vars

(***************************************************************************)
(* What the claims about the resolver speak of: the directory tree.  A     *)
(* path lies in the root when the root's segments are a prefix of its own. *)
(***************************************************************************)
IsSegPrefix(p, s) == Len(p) <= Len(s) /\ SubSeq(s, 1, Len(p)) = p

RootSegs(workspace) == ResolveSegs(<<workspace>>)

TargetSegs(workspace, targetPath) == ResolveSegs(<<PathResolve(<<workspace>>), targetPath>>)

LandsInside(workspace, targetPath) ==
  IsSegPrefix(RootSegs(workspace), TargetSegs(workspace, targetPath))

\* C1: resolveInside(R, p) returns only R or a strict descendant of R; it
\* throws for every p that resolves outside R and succeeds, with a result
\* that starts with R, for every p that stays within R.
C1_ResolveContainsAndAccepts ==
  rOut # Pending =>
    /\ rOut.st = "ok" => IsSegPrefix(RootSegs(rRoot), ResolveSegs(<<rOut.abs>>))
    /\ ~LandsInside(rRoot, rPath) => rOut.st = "throw"
    /\ LandsInside(rRoot, rPath) =>
         rOut.st = "ok" /\ StartsWith(rOut.abs, PathResolve(<<rRoot>>))

\* C26: ensureInWorkspace(R, p) throws for every p whose resolution lands
\* outside R, a sibling directory whose path has R's path as a string prefix
\* included, and returns only R or a strict descendant of R.
C26_EnsureInWorkspaceContains ==
  rEnsured # Pending =>
    /\ ~LandsInside(rRoot, rPath) => rEnsured.st = "throw"
    /\ rEnsured.st = "ok" => IsSegPrefix(RootSegs(rRoot), ResolveSegs(<<rEnsured.abs>>))

(***************************************************************************)
(* Claims about applyPatch and readFile.                                   *)
(***************************************************************************)
Returned(c) == c.st = "ok"

NewFile(c) == File(Utf8Encode(c.newContent))

\* C2: without --approve no apply_patch call replaces a workspace file and
\* every call that returns reports wrote: false; with --approve every call
\* that returns has written the new content to the target and reports
\* wrote: true.
C2_ApproveFlagIsTheGate ==
  \A i \in 1..Len(apLog) :
    LET c == apLog[i] IN
    /\ ~approveFlag => c.after = c.before /\ (Returned(c) => ~c.wrote)
    /\ approveFlag /\ Returned(c) => c.wrote /\ c.after = NewFile(c)

SameInputs(c, d) == c.filePath = d.filePath /\ c.newContent = d.newContent

\* C3: two dry-run calls with identical (filepath, new_content) leave the
\* target's content as it was and leave four distinct artifact files, two
\* diffs of identical content and two full copies, whatever the time between
\* the calls.
C3_DryRunTwiceLeavesTwoPairs ==
  \A i, j \in 1..Len(apLog) :
    LET c == apLog[i]
        d == apLog[j]
    IN (i < j /\ SameInputs(c, d) /\ Returned(c) /\ Returned(d)
          /\ ~c.approve /\ ~d.approve) =>
         /\ c.after = c.before /\ d.after = c.before
         /\ Cardinality({c.patchFile, c.fullFileArtifact,
                         d.patchFile, d.fullFileArtifact}) = 4
         /\ {c.patchFile, c.fullFileArtifact,
             d.patchFile, d.fullFileArtifact} \subseteq DOMAIN patches
         /\ c.diff = d.diff
         /\ patches[c.patchFile] = patches[d.patchFile]

PastArtifacts == {"dryRun", "openTmp", "writeTmp", "rename", "written"}

BeforeRename ==
  {"ensureParent", "readOld", "writePatch", "writeFull", "dryRun",
   "openTmp", "writeTmp", "rename"}

C27_DryRunLeavesTheTreeAlone ==
  /\ \A i \in 1..Len(apLog) :
       LET c == apLog[i] IN
       ~c.approve =>
         /\ c.treeKept
         /\ Returned(c) => c.written = {c.patchFile, c.fullFileArtifact}
  /\ (ap.pc # "idle" /\ ~ap.approve) => fs = ap.tree

\* The paths handed to apply_patch that resolve to a place outside the
\* workspace root
EscapingPaths == {p \in PatchPaths : ~LandsInside(Workspace, p)}

Escapes(filePath) == filePath \in EscapingPaths

\* C29: an apply_patch call whose path escapes the workspace throws in the
\* path resolution, before any effect, approved or not: the file system is
\* what it was (no directory, no temporary file, the target untouched) and
\* no artifact has been written.
C29_EscapeFailsBeforeAnyEffect ==
  /\ \A i \in 1..Len(apLog) :
       LET c == apLog[i] IN
       Escapes(c.filePath) =>
         /\ c.st = "throw"
         /\ c.step = "resolve"
         /\ c.treeKept
         /\ c.written = {}
         /\ c.patchFile = NoName /\ c.fullFileArtifact = NoName
  /\ ap.pc # "idle" => ~Escapes(ap.filePath)

\* C29's case: with --approve in force, a call for ../x has been refused
\* after an earlier call wrote its target.
C29_Witness ==
  /\ Len(apLog) = 2
  /\ apLog[1].wrote
  /\ apLog[2].filePath = <<".", ".", "/", "x">>
  /\ apLog[2].approve
  /\ apLog[2].st = "throw"
  /\ DOMAIN patches = apLog[1].written

\* C5: while an apply_patch call is in progress, a reader of the target sees
\* the complete prior node (or its absence) or the complete new content.
C5_ReaderSeesOldOrNew ==
  (ap.pc # "idle" /\ lastObs # Pending) =>
    lastObs \in {ap.prior, File(Utf8Encode(ap.newContent))}

\* C5's case: an approved call has written part of the new content to the
\* temporary file, and the reader has read the target.
C5_Witness ==
  /\ ap.approve
  /\ ap.pc = "writeTmp"
  /\ Len(Node(fs, TmpPath(ap.abs)).data) \in 1..(Len(Utf8Encode(ap.newContent)) - 1)
  /\ lastObs = ap.prior
  /\ ap.prior.kind = "file"
  /\ ap.prior # File(Utf8Encode(ap.newContent))

\* What the claim takes a read result to carry
ReadContent(v) == IF v.type = "string" THEN v.str ELSE v.content

HasHash(v) == "sha256" \in DOMAIN v

\* C6: an approved apply_patch(p, C) that wrote, followed by read_file(p),
\* yields exactly C together with a content hash.
C6_RoundTripWithHash ==
  (rd # NoRead /\ Len(apLog) >= 1 /\ Returned(apLog[Len(apLog)])
     /\ apLog[Len(apLog)].wrote) =>
    /\ rd.out.st = "ok"
    /\ ReadContent(rd.out.value) = apLog[Len(apLog)].newContent
    /\ HasHash(rd.out.value)

(***************************************************************************)
(* The normalizer applied to both envelopes of every logical response and  *)
(* to every raw response of another shape.                                 *)
(***************************************************************************)
InitNorm ==
  /\ ReplParked
  /\ LoopParked
  /\ SearchParked
  /\ CmdParked
  /\ ResolveParked
  /\ TurnParked
  /\ PatchParked
  /\ \/ nParts \in LogicalResponses /\ nRaw = Undef
     \/ nParts = <<>> /\ nRaw \in RawResponses
  /\ nOutFlat = Pending
  /\ nOutNested = Pending
  /\ nOutRaw = Pending

NormalizeFlat ==
  /\ nOutFlat = Pending
  /\ nOutFlat' = normalizeResponse(FlatShape(nParts))
  /\ UNCHANGED <<nParts, nRaw, nOutNested, nOutRaw>>
  /\ UNCHANGED exceptNorm

NormalizeNested ==
  /\ nOutNested = Pending
  /\ nOutNested' = normalizeResponse(NestedShape(nParts))
  /\ UNCHANGED <<nParts, nRaw, nOutFlat, nOutRaw>>
  /\ UNCHANGED exceptNorm

NormalizeRaw ==
  /\ nOutRaw = Pending
  /\ nOutRaw' = normalizeResponse(nRaw)
  /\ UNCHANGED <<nParts, nRaw, nOutFlat, nOutNested>>
  /\ UNCHANGED exceptNorm

NextNorm == NormalizeFlat \/ NormalizeNested \/ NormalizeRaw

SpecNorm == InitNorm /\ [][NextNorm]_vars

(***************************************************************************)
(* Claims about normalizeResponse.                                         *)
(***************************************************************************)
\* C7: the flat and the nested shape carrying the same text and the same
\* function calls normalize to identical canonical values.
C7_FlatAndNestedNormalizeAlike ==
  (nOutFlat # Pending /\ nOutNested # Pending) => nOutFlat = nOutNested

\* The flat shape, as line 132 tells it
IsFlatShape(resp) ==
  /\ resp.t = "object"
  /\ \/ "text" \in DOMAIN resp /\ resp.text.t = "string"
     \/ "functionCalls" \in DOMAIN resp /\ resp.functionCalls.t = "array"

Prop(v, k) == IF v.t = "object" /\ k \in DOMAIN v THEN v[k] ELSE Undef

First(v) == IF v.t = "array" /\ Len(v.a) > 0 THEN v.a[1] ELSE Undef

\* The nested shape: candidates[0].content.parts is there
IsNestedShape(resp) ==
  ~Nullish(Prop(Prop(First(Prop(Prop(resp, "response"), "candidates")), "content"), "parts"))

EmptyNormalized == Normalized(Str(<<>>), Arr(<<>>))

InitTurn ==
  /\ ReplParked
  /\ LoopParked
  /\ SearchParked
  /\ CmdParked
  /\ ResolveParked
  /\ PatchParked
  /\ NormParked
  /\ model \in ConfiguredModels
  /\ mt = MtIdle
  /\ calls = <<>>
  /\ tOutcomes = <<>>
  /\ tWaits = <<>>
  /\ turnOut = Pending
  /\ turn = 0
  /\ sw = NoSwitch

\* modelTurn is entered: let lastErr; attempt = 1
StartTurn ==
  /\ mt.pc = "idle"
  /\ turn < MaxTurns
  /\ turn' = turn + 1
  /\ mt' = [pc |-> "call", attempt |-> 1, lastErr |-> NoErr]
  /\ tOutcomes' = <<>>
  /\ tWaits' = <<>>
  /\ turnOut' = Pending
  /\ UNCHANGED <<model, calls, sw>>
  /\ UNCHANGED exceptTurn

\* attempt <= 3: ai.models.generateContent({ model, ... })
IssueCall ==
  /\ mt.pc = "call"
  /\ mt.attempt <= MaxAttempts
  /\ calls' = Append(calls, model)
  /\ mt' = [mt EXCEPT !.pc = "await"]
  /\ UNCHANGED <<model, tOutcomes, tWaits, turnOut, turn, sw>>
  /\ UNCHANGED exceptTurn

\* catch (e): lines 161-169, up to the timer
CatchBlock(e) ==
  IF FallsBack(e, model)
    THEN /\ model' = ModelAfterNotFound(model)
         /\ sw' = [done |-> TRUE, calls |-> Len(calls), turn |-> turn]
         /\ mt' = [mt EXCEPT !.pc = "call", !.attempt = @ + 1]
    ELSE /\ mt' = [mt EXCEPT !.pc = "backoff", !.lastErr = e]
         /\ UNCHANGED <<model, sw>>

\* generateContent resolves
BackendReturns ==
  /\ mt.pc = "await"
  /\ \E resp \in TurnResponses :
       LET norm == normalizeResponse(resp) IN
       /\ tOutcomes' = Append(tOutcomes, Returned200)
       /\ IF norm.st = "throw"
            THEN CatchBlock(TypeErr) /\ UNCHANGED turnOut
          ELSE IF IsEmptyNorm(norm)
            THEN /\ mt' = [mt EXCEPT !.pc = "call", !.attempt = @ + 1,
                                     !.lastErr = EmptyErr]
                 /\ UNCHANGED <<model, sw, turnOut>>
          ELSE /\ mt' = [mt EXCEPT !.pc = "idle"]
               /\ turnOut' = [st |-> "ok", norm |-> norm]
               /\ UNCHANGED <<model, sw>>
  /\ UNCHANGED <<calls, tWaits, turn>>
  /\ UNCHANGED exceptTurn

\* generateContent rejects
BackendRaises ==
  /\ mt.pc = "await"
  /\ \E status \in Statuses :
       /\ tOutcomes' = Append(tOutcomes, Raised(ApiErr(status)))
       /\ CatchBlock(ApiErr(status))
  /\ UNCHANGED <<calls, tWaits, turnOut, turn>>
  /\ UNCHANGED exceptTurn

\* the timer of line 168 fires; attempt++
BackoffElapsed ==
  /\ mt.pc = "backoff"
  /\ tWaits' = Append(tWaits, BackoffDelay(mt.attempt))
  /\ mt' = [mt EXCEPT !.pc = "call", !.attempt = @ + 1]
  /\ UNCHANGED <<model, calls, tOutcomes, turnOut, turn, sw>>
  /\ UNCHANGED exceptTurn

\* attempt > 3: throw lastErr || new Error('Model did not return usable output')
Exhausted ==
  /\ mt.pc = "call"
  /\ mt.attempt > MaxAttempts
  /\ turnOut' = [st |-> "throw",
                 err |-> IF mt.lastErr = NoErr THEN UnusableErr ELSE mt.lastErr]
  /\ mt' = [mt EXCEPT !.pc = "idle"]
  /\ UNCHANGED <<model, calls, tOutcomes, tWaits, turn, sw>>
  /\ UNCHANGED exceptTurn

NextTurn ==
  \/ StartTurn
  \/ IssueCall
  \/ BackendReturns
  \/ BackendRaises
  \/ BackoffElapsed
  \/ Exhausted

SpecTurn == InitTurn /\ [][NextTurn]_vars

(***************************************************************************)
(* Claims about modelTurn.                                                 *)
(***************************************************************************)
\* The backend calls the current turn has issued
TurnCalls == Len(tOutcomes) + (IF mt.pc = "await" THEN 1 ELSE 0)

TurnOver == mt.pc = "idle" /\ turnOut # Pending

\* Every attempt of the turn raised an error other than model-not-found
AllTransient ==
  \A i \in 1..Len(tOutcomes) :
    tOutcomes[i].kind = "raise" /\ tOutcomes[i].status # NotFound

\* C9: a turn makes at most 3 backend attempts whatever the backend does;
\* when every attempt raises a transient error it makes exactly 3, waits
\* 400*attempt ms after attempt number attempt, and fails with the last error.
C9_ThreeAttemptsWithBackoff ==
  /\ TurnCalls <= 3
  /\ (TurnOver /\ AllTransient) =>
       /\ TurnCalls = 3
       /\ tWaits = <<400, 800, 1200>>
       /\ turnOut = [st |-> "throw", err |-> ApiErr(tOutcomes[3].status)]

\* C9's case: a turn whose three attempts raised 500, 500 and 503 is over.
C9_Witness ==
  /\ TurnOver
  /\ Len(tOutcomes) = 3
  /\ AllTransient
  /\ tOutcomes[2].status = 500
  /\ tOutcomes[3].status = 503

\* C10: once a 404 has set the model identifier to the fallback, it stays the
\* fallback and every later backend call of the process is issued with it.
C10_FallbackIsOneWay ==
  sw.done =>
    /\ model = Fallback
    /\ \A i \in (sw.calls + 1)..Len(calls) : calls[i] = Fallback

\* C10's case: the fallback was set in the first turn and the second turn
\* has issued a call.
C10_Witness ==
  /\ sw.done
  /\ sw.turn = 1
  /\ turn = 2
  /\ Len(tOutcomes) >= 1
  /\ Len(calls) > sw.calls

\* An outcome the claim takes for retryable: a response that was not
\* returned to the caller, or a failure other than model-not-found
RetryableOutcome(o) == o.kind = "return" \/ (o.kind = "raise" /\ o.status # NotFound)

WaitedAfter(k) == \E j \in 1..Len(tWaits) : tWaits[j] = BackoffMs * k

\* C23: within a turn, every retry that follows a retryable outcome (a
\* failure other than model-not-found, or a response that normalizes to no
\* text and no function calls) comes after a wait of attempt * 400 ms, where
\* attempt numbers the attempt that just failed.
C23_RetryComesAfterBackoff ==
  \A k \in 1..Len(tOutcomes) :
    (TurnCalls > k /\ RetryableOutcome(tOutcomes[k])) => WaitedAfter(k)

\* The model identifier the k-th attempt of the turn that is over called
CalledWith(k) == calls[Len(calls) - Len(tOutcomes) + k]

NotFoundOnPrimary(k) ==
  /\ tOutcomes[k].kind = "raise"
  /\ tOutcomes[k].status = NotFound
  /\ CalledWith(k) # Fallback

\* C24: whenever a backend call fails with model-not-found while the model
\* is not the fallback, on whichever attempt of the turn, the model becomes
\* the fallback and the same turn issues its next call with it, with no
\* backoff wait in between.
C24_NotFoundRetriesOnFallbackAtOnce ==
  TurnOver =>
    \A k \in 1..Len(tOutcomes) :
      NotFoundOnPrimary(k) =>
        /\ model = Fallback
        /\ ~WaitedAfter(k)
        /\ k < Len(tOutcomes)
        /\ CalledWith(k + 1) = Fallback

(***************************************************************************)
(* One command run through runCmd or runTests, whatever execa does.        *)
(***************************************************************************)
InitCmd ==
  /\ ReplParked
  /\ LoopParked
  /\ SearchParked
  /\ ResolveParked
  /\ PatchParked
  /\ NormParked
  /\ TurnParked
  /\ cmTimeout \in Timeouts
  /\ cmExec = NoExec
  /\ cmVia = "none"
  /\ cmOut = Pending

RunCmdCall ==
  /\ cmOut = Pending
  /\ \E exec \in ExecOutcomes(cmTimeout) :
       /\ cmExec' = exec
       /\ cmOut' = runCmd(exec)
  /\ cmVia' = "runCmd"
  /\ UNCHANGED cmTimeout
  /\ UNCHANGED exceptCmd

RunTestsCall ==
  /\ cmOut = Pending
  /\ \E exec \in ExecOutcomes(cmTimeout) :
       /\ cmExec' = exec
       /\ cmOut' = runTests(exec)
  /\ cmVia' = "runTests"
  /\ UNCHANGED cmTimeout
  /\ UNCHANGED exceptCmd

NextCmd == RunCmdCall \/ RunTestsCall

SpecCmd == InitCmd /\ [][NextCmd]_vars

\* C15: runCmd and runTests never throw; each call returns an object
\* {exitCode, stdout, stderr}, and the exitCode is non-zero whenever the
\* command failed to start, exited non-zero, timed out or was killed.
C15_RunCmdReturnsNonZeroOnFailure ==
  cmOut # Pending =>
    /\ cmOut.st = "ok"
    /\ cmOut.exitCode.t = "number"
    /\ cmOut.stdout.t = "string"
    /\ cmOut.stderr.t = "string"
    /\ cmExec.kind # "exited-zero" => cmOut.exitCode # Num(0)

\* C15's case: run_tests' command timed out with output on both streams.
C15_Witness ==
  /\ cmVia = "runTests"
  /\ cmExec.kind = "timed-out"
  /\ cmExec.stdout = Str(<<"ESC", "a">>)
  /\ cmOut.exitCode = Num(1)
  /\ cmOut.stdout = Str(<<"a">>)

(***************************************************************************)
(* One search_files call, whatever rg does.                                *)
(***************************************************************************)
InitSearch ==
  /\ ReplParked
  /\ LoopParked
  /\ ResolveParked
  /\ PatchParked
  /\ NormParked
  /\ TurnParked
  /\ CmdParked
  /\ sfMax \in 0..MaxResultsArg
  /\ sfExec = NoRg
  /\ sfOut = Pending

SearchCall ==
  /\ sfOut = Pending
  /\ \E exec \in RgOutcomes :
       /\ sfExec' = exec
       /\ sfOut' = searchFiles(exec, sfMax)
  /\ UNCHANGED sfMax
  /\ UNCHANGED exceptSearch

NextSearch == SearchCall

SpecSearch == InitSearch /\ [][NextSearch]_vars

\* The matches a result holds
MatchCount(text) == Len(FilterBoolean(SplitLines(text)))

\* C16: search_files never raises and never returns more than maxResults
\* matches, also when rg failed after partial output; with zero matches the
\* result is empty.
C16_SearchIsCappedAndNeverRaises ==
  sfOut # Pending =>
    /\ sfOut.st = "ok"
    /\ MatchCount(sfOut.text) <= sfMax
    /\ sfExec.kind = "no-match" => sfOut.text = <<>>

(***************************************************************************)
(* The process from its entrypoint on: tasks, passes of executeToolLoop,   *)
(* the dispatch of each function call and the verification of runTask.     *)
(* lHist and lLog hold what was pushed to history and written to the       *)
(* session log since the loop condition was last tested; the code itself   *)
(* never reads either.  modelTurn is taken whole, as it returns or throws. *)
(***************************************************************************)
InitLoop ==
  /\ ReplParked
  /\ ResolveParked
  /\ PatchParked
  /\ NormParked
  /\ TurnParked
  /\ CmdParked
  /\ SearchParked
  /\ lUntilDone \in BOOLEAN
  /\ lMaxToolIters \in {Num(n) : n \in 0..MaxIters}
  /\ lMode \in {"one-shot", "repl"}
  /\ lp = Proc("entry", 0, <<>>)
  /\ lHist = <<>>
  /\ lLog = <<>>
  /\ lSeen = TaskStart
  /\ lExit = [exited |-> FALSE, code |-> 0]

\* defaults.maxToolIters ?? 100
MaxItersOf(cfg) == Coalesce(cfg, Num(DefaultMaxToolIters)).v

\* Counting what has been seen, up to MaxSeen
Bump(n) == IF n < MaxSeen THEN n + 1 ELSE MaxSeen

\* runTask(taskText) up to the first executeToolLoop, called with the
\* command line's task or with a line of the REPL that arrives once the
\* task before it is over (SpecRepl has the lines that arrive earlier)
StartTask ==
  /\ ~lExit.exited
  /\ \/ lp.pc = "entry"
     \/ lMode = "repl" /\ lp.pc \in {"done", "aborted"}
  /\ \E taskText \in {PlainText, SecretText} :
       /\ lHist' = <<Entry("user", "text", "", taskText)>>
       /\ lLog' = <<Entry("user", "text", "", redact(Result("string", taskText)))>>
  /\ lp' = Proc("loopTest", 0, <<>>)
  /\ lSeen' = TaskStart
  /\ UNCHANGED <<lUntilDone, lMaxToolIters, lMode, lExit>>
  /\ UNCHANGED exceptLoop

\* while (iterations++ < maxIters)
LoopTest ==
  /\ lp.pc = "loopTest"
  /\ IF LoopCondition(lp.iterations, MaxItersOf(lMaxToolIters))
       THEN /\ lp' = Proc("turn", NextIterations(lp.iterations), <<>>)
            /\ lSeen' = [lSeen EXCEPT !.last = NoCall, !.calls = <<>>,
                                      !.prevTurn = TurnBeforeWindow(lHist, @)]
       ELSE /\ lp' = Proc("passEnd", NextIterations(lp.iterations), <<>>)
            /\ lSeen' = [lSeen EXCEPT !.last = NoCall, !.calls = <<>>, !.exhausted = TRUE,
                                      !.prevTurn = TurnBeforeWindow(lHist, @)]
  /\ lHist' = <<>>
  /\ lLog' = <<>>
  /\ UNCHANGED <<lUntilDone, lMaxToolIters, lMode, lExit>>
  /\ UNCHANGED exceptLoop

\* resp = await modelTurn(...) returns; a response without function calls
\* is logged and ends the pass (lines 219-224)
ModelTurnReturns ==
  /\ lp.pc = "turn"
  /\ \E resp \in Responses :
       /\ UNCHANGED lHist
       /\ IF Len(resp.functionCalls) > 0
            THEN /\ lp' = [lp EXCEPT !.pc = "dispatch", !.queue = resp.functionCalls]
                 /\ lLog' = <<>>
                 /\ lSeen' = [lSeen EXCEPT !.turnsInPass = @ + 1, !.turnAfterVerify = TRUE,
                                           !.calls = resp.functionCalls]
            ELSE /\ lp' = [lp EXCEPT !.pc = "passEnd"]
                 /\ lLog' = IF TrimText(resp.text) # <<>>
                              THEN <<Entry("model", "text", "",
                                           redact(Result("string", TrimText(resp.text))))>>
                              ELSE <<>>
                 /\ lSeen' = [lSeen EXCEPT !.turnsInPass = @ + 1, !.turnAfterVerify = TRUE,
                                           !.allTools = FALSE]
  /\ UNCHANGED <<lUntilDone, lMaxToolIters, lMode, lExit>>
  /\ UNCHANGED exceptLoop

\* modelTurn throws after its attempts; nothing up to runTask catches it
ModelTurnThrows ==
  /\ lp.pc = "turn"
  /\ lp' = [lp EXCEPT !.pc = AfterTurnThrows(lUntilDone)]
  /\ lSeen' = [lSeen EXCEPT !.turnsInPass = @ + 1, !.turnAfterVerify = TRUE,
                            !.turnFailed = TRUE]
  /\ UNCHANGED <<lUntilDone, lMaxToolIters, lMode, lHist, lLog, lExit>>
  /\ UNCHANGED exceptLoop

\* Where the pass goes after one function call has been handled
AfterCall == IF Len(lp.queue) > 1 THEN "dispatch" ELSE "loopTest"

\* lines 193-203: a function call whose name finds no implementation
DispatchUnknown ==
  /\ lp.pc = "dispatch"
  /\ LET fc == Head(lp.queue) IN
     /\ Lookup(fc.name) = "undefined"
     /\ lLog' = lLog \o <<Entry("model", "functionCall", fc.name, fc.args),
                          Entry("tool", "result", fc.name, <<"Unknown tool", fc.name>>)>>
     /\ lHist' = Append(lHist, Entry("model", "text", "", <<"Unknown tool", fc.name>>))
     /\ lSeen' = [lSeen EXCEPT !.last = [name |-> fc.name, lookup |-> "undefined",
                                         implRan |-> FALSE, threw |-> FALSE]]
  /\ lp' = [lp EXCEPT !.pc = AfterCall, !.queue = Tail(@)]
  /\ UNCHANGED <<lUntilDone, lMaxToolIters, lMode, lExit>>
  /\ UNCHANGED exceptLoop

\* lines 193-214: a function call whose name finds an implementation
DispatchCall ==
  /\ lp.pc = "dispatch"
  /\ LET fc == Head(lp.queue) IN
     /\ Lookup(fc.name) # "undefined"
     /\ \E outcome \in ImplOutcomes(fc) :
          LET got == DispatchResult(outcome)
              seen == [lSeen EXCEPT !.last = [name |-> fc.name, lookup |-> Lookup(fc.name),
                                              implRan |-> TRUE,
                                              threw |-> outcome.kind = "throw"],
                                    !.wrote = @ \/ outcome.wrote]
          IN IF got.kind = "throw"
               THEN /\ lp' = [lp EXCEPT !.pc = "aborted"]
                    /\ lLog' = Append(lLog, Entry("model", "functionCall", fc.name, fc.args))
                    /\ lSeen' = seen
                    /\ UNCHANGED lHist
               ELSE /\ lp' = [lp EXCEPT !.pc = AfterCall, !.queue = Tail(@)]
                    /\ lLog' = lLog \o <<Entry("model", "functionCall", fc.name, fc.args),
                                         Entry("tool", "result", fc.name, redact(got.res))>>
                    /\ lHist' = lHist \o HistoryTurns(fc, got.res)
                    /\ lSeen' = seen
  /\ UNCHANGED <<lUntilDone, lMaxToolIters, lMode, lExit>>
  /\ UNCHANGED exceptLoop

\* executeToolLoop returns to runTask: if (untilDone) ... else break
PassEnds ==
  /\ lp.pc = "passEnd"
  /\ lp' = [lp EXCEPT !.pc = AfterLoop(lUntilDone)]
  /\ lSeen' = [lSeen EXCEPT !.verifs = 0]
  /\ UNCHANGED <<lUntilDone, lMaxToolIters, lMode, lHist, lLog, lExit>>
  /\ UNCHANGED exceptLoop

\* lines 238-247 and the while (untilDone) of line 255.  runTests does not
\* throw, so the catch of lines 248-251 is never entered.
Verify ==
  /\ lp.pc = "verify"
  /\ \E exec \in VerifyExecs :
       LET testRes == runTests(exec)
           shown == Result("object", testRes.stdout.v \o testRes.stderr.v)
       IN /\ lLog' = Append(lLog, Entry("tool", "result", "run_tests", redact(shown)))
          /\ IF VerifyPassed(testRes)
               THEN /\ lp' = [lp EXCEPT !.pc = "done"]
                    /\ lSeen' = [lSeen EXCEPT !.verifs = Bump(@), !.verifsInTask = Bump(@),
                                              !.testRes = testRes, !.turnAfterVerify = FALSE]
                    /\ UNCHANGED lHist
               ELSE /\ lp' = Proc("loopTest", 0, <<>>)
                    /\ lHist' = Append(lHist, Entry("user", "functionResponse", "run_tests",
                                                    <<"object">> \o shown.body))
                    /\ lSeen' = [lSeen EXCEPT !.verifs = Bump(@), !.verifsInTask = Bump(@),
                                              !.testRes = testRes, !.turnAfterVerify = FALSE,
                                              !.turnsInPass = 0, !.allTools = TRUE,
                                              !.exhausted = FALSE, !.passes = Bump(@),
                                              !.wrote = FALSE,
                                              !.noWritePasses = IF lSeen.wrote THEN 0 ELSE Bump(@)]
  /\ UNCHANGED <<lUntilDone, lMaxToolIters, lMode, lExit>>
  /\ UNCHANGED exceptLoop

\* line 266: process.exit(0) after the task of the command line
ExitAfterTask ==
  /\ lMode = "one-shot"
  /\ lp.pc = "done"
  /\ ~lExit.exited
  /\ lExit' = [exited |-> TRUE, code |-> 0]
  /\ UNCHANGED <<lUntilDone, lMaxToolIters, lMode, lp, lHist, lLog, lSeen>>
  /\ UNCHANGED exceptLoop

\* line 265: the rejection of runTask is not handled; node ends with code 1
ExitOnRejection ==
  /\ lMode = "one-shot"
  /\ lp.pc = "aborted"
  /\ ~lExit.exited
  /\ lExit' = [exited |-> TRUE, code |-> 1]
  /\ UNCHANGED <<lUntilDone, lMaxToolIters, lMode, lp, lHist, lLog, lSeen>>
  /\ UNCHANGED exceptLoop

\* lines 275 and 279-282: exit, quit or end of input between two tasks
ReplClose ==
  /\ lMode = "repl"
  /\ lp.pc \in {"entry", "done", "aborted"}
  /\ ~lExit.exited
  /\ lExit' = [exited |-> TRUE, code |-> 0]
  /\ UNCHANGED <<lUntilDone, lMaxToolIters, lMode, lp, lHist, lLog, lSeen>>
  /\ UNCHANGED exceptLoop

NextLoop ==
  \/ StartTask
  \/ LoopTest
  \/ ModelTurnReturns
  \/ ModelTurnThrows
  \/ DispatchUnknown
  \/ DispatchCall
  \/ PassEnds
  \/ Verify
  \/ ExitAfterTask
  \/ ExitOnRejection
  \/ ReplClose

SpecLoop == InitLoop /\ [][NextLoop]_vars

(***************************************************************************)
(* Claims about executeToolLoop and the dispatch of function calls.        *)
(***************************************************************************)
\* C11: with maxToolIters = N a pass makes at most N model turns, and a pass
\* in which every response requested a tool stops after exactly N of them.
C11_PassMakesAtMostNTurns ==
  /\ lSeen.turnsInPass <= MaxItersOf(lMaxToolIters)
  /\ lp.pc = "turn" => lSeen.turnsInPass < MaxItersOf(lMaxToolIters)
  /\ (lp.pc = "passEnd" /\ lSeen.allTools) =>
       (lSeen.exhausted /\ lSeen.turnsInPass = MaxItersOf(lMaxToolIters))

\* C11's case: with N = 2, a pass of two tool-requesting turns has stopped.
C11_Witness ==
  /\ lp.pc = "passEnd"
  /\ lSeen.allTools
  /\ lSeen.turnsInPass = 2
  /\ lMaxToolIters = Num(2)

\* C12: a pass that runs out of iterations returns normally, and a one-shot
\* run that ends this way exits with code 0.
C12_ExhaustionIsNotAFailure ==
  lSeen.exhausted =>
    /\ lp.pc \in {"passEnd", "verify", "done"}
    /\ lExit.exited => lExit.code = 0

\* C12's case: a one-shot run has exited after a pass that ran out of
\* iterations while the model was still requesting tools.
C12_Witness ==
  /\ lMode = "one-shot"
  /\ lSeen.exhausted
  /\ lSeen.allTools
  /\ lSeen.turnsInPass >= 1
  /\ lExit.exited

UnknownNotice(name) == Entry("model", "text", "", <<"Unknown tool", name>>)

C14_ToolFailuresBecomeErrorResults ==
  lSeen.last.threw =>
    /\ lp.pc \in {"dispatch", "loopTest"}
    /\ Len(lHist) > 0
    /\ lHist[Len(lHist)].kind = "functionResponse"
    /\ lHist[Len(lHist)].name = lSeen.last.name
    /\ Head(lHist[Len(lHist)].body) = "error"

\* C14's case: git_commit failed in a repository with nothing to commit and
\* the next call of the same response is about to be dispatched.
C14_Witness ==
  /\ lSeen.last.threw
  /\ lSeen.last.name = "git_commit"
  /\ lp.pc = "dispatch"
  /\ Len(lp.queue) = 1
  /\ lHist[Len(lHist)].body = <<"error", "Error: nothing to commit">>

(***************************************************************************)
(* Claims about the session log and about runTask.                         *)
(***************************************************************************)
\* The plainest credential shape: a key name, "=", a value
Unredacted(body) ==
  \E i \in 1..(Len(body) - 2) :
    body[i] = "KEY" /\ body[i + 1] = "=" /\ body[i + 2] = "s"

\* C17: no line of the session log, of whatever kind, holds a credential
\* that has not been replaced by the redaction marker.
C17_NoCredentialInLog ==
  \A i \in 1..Len(lLog) : ~Unredacted(lLog[i].body)

TestsResponse(i) ==
  /\ lHist[i].role = "user"
  /\ lHist[i].kind = "functionResponse"
  /\ lHist[i].name = "run_tests"

PassStarts == lp.pc = "loopTest" /\ lp.iterations = 0

\* C18: with --until-done each pass is followed by exactly one verification;
\* exit code 0 ends the task with no further model turn, any other result is
\* pushed to the history as the run_tests function response and another pass
\* starts.  Without --until-done there is one pass and no verification.
C18_VerificationAfterEachPass ==
  /\ ~lUntilDone => (lSeen.passes = 1 /\ lSeen.verifsInTask = 0 /\ lp.pc # "verify")
  /\ (lUntilDone /\ lp.pc = "done") =>
       /\ lSeen.verifs = 1
       /\ lSeen.testRes.exitCode = Num(0)
       /\ ~lSeen.turnAfterVerify
  /\ (lUntilDone /\ PassStarts /\ lSeen.passes > 1) =>
       /\ lSeen.verifs = 1
       /\ lSeen.testRes.exitCode # Num(0)
       /\ Len(lHist) > 0
       /\ TestsResponse(Len(lHist))

\* C18's case: the verification after the first pass failed and the second
\* pass is about to start with its result in the history.
C18_Witness ==
  /\ lUntilDone
  /\ PassStarts
  /\ lSeen.passes = 2
  /\ lSeen.testRes.exitCode = Num(1)
  /\ TestsResponse(Len(lHist))

InstructionTurn(i) == lHist[i].role = "user" /\ lHist[i].kind = "text"

\* C19: with --until-done, when 3 passes in a row have ended without a file
\* write, an instruction turn is pushed to the history before the next pass
\* starts.
C19_InstructionAfterThreeDryPasses ==
  (lUntilDone /\ PassStarts /\ lSeen.noWritePasses >= 3) =>
    \E i \in 1..Len(lHist) : InstructionTurn(i)

(***************************************************************************)
(* Termination.  The process is a single thread that takes its next step   *)
(* whenever one is possible: every backend call, tool and command is taken *)
(* to come back.                                                           *)
(***************************************************************************)
SpecLoopFair == SpecLoop /\ WF_vars(NextLoop)

PassRunning == lp.pc \in {"loopTest", "turn", "dispatch"}

TaskRunning == PassRunning \/ lp.pc \in {"passEnd", "verify"}

TaskOver == lp.pc \in {"done", "aborted"}

\* C20 as stated: every task run, in one-pass and in until-done mode,
\* eventually returns or throws.
C20_EveryTaskRunTerminates == TaskRunning ~> TaskOver

\* C20: every pass ends, by returning or by a model turn that throws, after
\* at most maxToolIters model turns, and a task run without --until-done
\* eventually returns or throws.
C20_PassesAndOnePassRunsTerminate ==
  /\ [](lSeen.turnsInPass <= MaxItersOf(lMaxToolIters))
  /\ PassRunning ~> (lp.pc \in {"passEnd", "aborted"})
  /\ (TaskRunning /\ ~lUntilDone) ~> TaskOver

\* C20's case: a run without --until-done has returned after a pass of two
\* model turns, the second answering with text.
C20_Witness ==
  /\ ~lUntilDone
  /\ lp.pc = "done"
  /\ lSeen.turnsInPass = 2
  /\ ~lSeen.exhausted

(***************************************************************************)
(* Claims about the failure of a model turn and the order of the dispatch. *)
(***************************************************************************)
\* C21: once a model turn of a task has failed after its attempts, the task
\* is aborted: it makes no further model call, dispatches no tool and runs
\* no verification, with and without --until-done; a one-shot process ends
\* with the unhandled rejection.
C21_FailedTurnAbortsTheTask ==
  lSeen.turnFailed =>
    /\ lp.pc = "aborted"
    /\ lp.pc \notin {"loopTest", "turn", "dispatch", "passEnd", "verify", "done"}
    /\ lExit.exited => (lMode = "one-shot" => lExit.code = 1)

\* C21's case: with --until-done the first pass ended, its verification
\* failed, and a model turn of the second pass threw; the process has exited.
C21_Witness ==
  /\ lSeen.turnFailed
  /\ lUntilDone
  /\ lSeen.passes = 2
  /\ lSeen.verifsInTask = 1
  /\ lMode = "one-shot"
  /\ lExit.exited

\* The calls of the current response that have been handled
Dispatched == SubSeq(lSeen.calls, 1, Len(lSeen.calls) - Len(lp.queue))

KnownCalls(fcs) == SelectSeq(fcs, LAMBDA fc : Lookup(fc.name) # "undefined")

CallTurns == SelectSeq(lHist, LAMBDA e : e.kind = "functionCall")

\* C25: the function calls of a response are dispatched one at a time in
\* the order emitted: while they are dispatched the history holds, for the
\* calls to known tools handled so far and for none of the others, the call
\* turns in that order, each followed at once by its own result turn.
C25_CallsDispatchedInOrder ==
  (lp.pc \in {"dispatch", "loopTest"} /\ Len(lSeen.calls) > 0) =>
    /\ Len(CallTurns) = Len(KnownCalls(Dispatched))
    /\ \A k \in 1..Len(CallTurns) :
         /\ CallTurns[k].name = KnownCalls(Dispatched)[k].name
         /\ CallTurns[k].body = KnownCalls(Dispatched)[k].args
         /\ CallTurns[k].role = "model"
    /\ \A i \in 1..Len(lHist) :
         lHist[i].kind = "functionCall" =>
           /\ i < Len(lHist)
           /\ lHist[i + 1].kind = "functionResponse"
           /\ lHist[i + 1].role = "user"
           /\ lHist[i + 1].name = lHist[i].name
    /\ Len(lHist) = 2 * Len(CallTurns) + (Len(Dispatched) - Len(CallTurns))

\* C25's case: the response asked for apply_patch and then read_file, both
\* have been dispatched, and the history holds the four turns in order.
C25_Witness ==
  /\ lp.pc = "loopTest"
  /\ Len(lSeen.calls) = 2
  /\ Len(lHist) = 4
  /\ lHist[1].name = "apply_patch"
  /\ lHist[3].kind = "functionCall"
  /\ lHist[3].name = "read_file"
  /\ lHist[4].kind = "functionResponse"

\* The turn pushed to history just before the i-th turn lHist holds
TurnBefore(i) == IF i = 1 THEN lSeen.prevTurn ELSE lHist[i - 1]

\* C28: every function-response turn of the history comes right after a
\* function-call turn of the model with the same tool name, whether the tool
\* loop pushed it or runTask pushed it as the verification result.
C28_ResponseFollowsItsCall ==
  \A i \in 1..Len(lHist) :
    lHist[i].kind = "functionResponse" =>
      /\ TurnBefore(i).role = "model"
      /\ TurnBefore(i).kind = "functionCall"
      /\ TurnBefore(i).name = lHist[i].name

(***************************************************************************)
(* The process with its line handlers.  Each runTask invocation takes one  *)
(* step per await of lines 189-250; the steps of different invocations     *)
(* interleave as the event loop allows.                                    *)
(***************************************************************************)
InitRepl ==
  /\ ResolveParked
  /\ PatchParked
  /\ NormParked
  /\ TurnParked
  /\ CmdParked
  /\ SearchParked
  /\ LoopParked
  /\ replMode \in {"one-shot", "repl"}
  /\ replUntilDone \in BOOLEAN
  /\ replMaxToolIters \in {Num(n) : n \in 0..MaxIters}
  /\ replLines = 0
  /\ replRuns = <<>>
  /\ replLast = Pushed(0, "baseInstruction")
  /\ replExit = [exited |-> FALSE, code |-> 0]

\* while (iterations++ < maxIters), and what follows the loop in runTask
EnterLoop(r) ==
  IF LoopCondition(r.iterations, MaxItersOf(replMaxToolIters))
    THEN Run("turn", NextIterations(r.iterations), <<>>, FALSE)
    ELSE Run(AfterLoop(replUntilDone), NextIterations(r.iterations), <<>>, FALSE)

\* The end of the for body: the next call of the response, or the loop test
NextCall(r) ==
  IF Len(r.queue) > 1 THEN [r EXCEPT !.pc = "logCall", !.queue = Tail(@)]
  ELSE EnterLoop(r)

\* lines 228-232: runTask pushes the task and awaits the log
RunTask ==
  /\ replRuns' = Append(replRuns, Run("logTask", 0, <<>>, FALSE))
  /\ replLast' = Pushed(Len(replRuns) + 1, "text")

\* line 265: the task of the command line
OneShotTask ==
  /\ replMode = "one-shot"
  /\ ~replExit.exited
  /\ replRuns = <<>>
  /\ RunTask
  /\ UNCHANGED <<replMode, replUntilDone, replMaxToolIters, replLines, replExit>>
  /\ UNCHANGED exceptRepl

\* lines 272-278: a line event, whatever the earlier handlers are doing
LineEvent ==
  /\ replMode = "repl"
  /\ ~replExit.exited
  /\ replLines < MaxLines
  /\ replLines' = replLines + 1
  /\ \E cmd \in ReplLines :
       IF cmd = "" THEN UNCHANGED <<replRuns, replLast, replExit>>
       ELSE IF cmd = "exit"
         THEN /\ replExit' = [exited |-> TRUE, code |-> 0]
              /\ UNCHANGED <<replRuns, replLast>>
       ELSE RunTask /\ UNCHANGED replExit
  /\ UNCHANGED <<replMode, replUntilDone, replMaxToolIters>>
  /\ UNCHANGED exceptRepl

\* What a step of an invocation leaves alone
RunFrame ==
  /\ ~replExit.exited
  /\ UNCHANGED <<replMode, replUntilDone, replMaxToolIters, replLines, replExit>>
  /\ UNCHANGED exceptRepl

\* line 232: the log of the task is written; the first loop test
TaskLogged ==
  /\ RunFrame
  /\ \E i \in 1..Len(replRuns) :
       /\ replRuns[i].pc = "logTask"
       /\ replRuns' = [replRuns EXCEPT ![i] = EnterLoop(@)]
       /\ UNCHANGED replLast

\* line 189: modelTurn returns, up to the await of line 194 or of line 221
TurnReturns ==
  /\ RunFrame
  /\ \E i \in 1..Len(replRuns) :
       /\ replRuns[i].pc = "turn"
       /\ \E resp \in ReplResponses :
            replRuns' = [replRuns EXCEPT ![i] =
              IF Len(resp.functionCalls) > 0
                THEN [@ EXCEPT !.pc = "logCall", !.queue = resp.functionCalls]
              ELSE IF TrimText(resp.text) # <<>> THEN [@ EXCEPT !.pc = "logText"]
              ELSE [@ EXCEPT !.pc = AfterLoop(replUntilDone)]]
       /\ UNCHANGED replLast

\* line 189: modelTurn throws
TurnThrows ==
  /\ RunFrame
  /\ \E i \in 1..Len(replRuns) :
       /\ replRuns[i].pc = "turn"
       /\ replRuns' = [replRuns EXCEPT ![i].pc = AfterTurnThrows(replUntilDone)]
       /\ UNCHANGED replLast

\* line 221: the text is logged; break
TextLogged ==
  /\ RunFrame
  /\ \E i \in 1..Len(replRuns) :
       /\ replRuns[i].pc = "logText"
       /\ replRuns' = [replRuns EXCEPT ![i].pc = AfterLoop(replUntilDone)]
       /\ UNCHANGED replLast

\* lines 194-206: the call is logged; the notice of an unknown tool is
\* pushed, or the implementation is called
CallLogged ==
  /\ RunFrame
  /\ \E i \in 1..Len(replRuns) :
       /\ replRuns[i].pc = "logCall"
       /\ IF Lookup(Head(replRuns[i].queue).name) = "undefined"
            THEN /\ replRuns' = [replRuns EXCEPT ![i].pc = "logUnknown"]
                 /\ replLast' = Pushed(i, "text")
            ELSE /\ replRuns' = [replRuns EXCEPT ![i].pc = "impl"]
                 /\ UNCHANGED replLast

\* lines 200-202: the notice is logged; continue
UnknownLogged ==
  /\ RunFrame
  /\ \E i \in 1..Len(replRuns) :
       /\ replRuns[i].pc = "logUnknown"
       /\ replRuns' = [replRuns EXCEPT ![i] = NextCall(@)]
       /\ UNCHANGED replLast

\* lines 206-209: the implementation returns or throws, either way a result
ImplSettles ==
  /\ RunFrame
  /\ \E i \in 1..Len(replRuns) :
       /\ replRuns[i].pc = "impl"
       /\ replRuns' = [replRuns EXCEPT ![i].pc = "logResult"]
       /\ UNCHANGED replLast

\* lines 209-215: the result is logged; the call and its response are pushed
ResultLogged ==
  /\ RunFrame
  /\ \E i \in 1..Len(replRuns) :
       /\ replRuns[i].pc = "logResult"
       /\ replRuns' = [replRuns EXCEPT ![i] = NextCall(@)]
       /\ replLast' = Pushed(i, "functionResponse")

\* line 240: run_tests returns
VerifySettles ==
  /\ RunFrame
  /\ \E i \in 1..Len(replRuns) :
       /\ replRuns[i].pc = "verify"
       /\ \E exec \in VerifyExecs :
            replRuns' = [replRuns EXCEPT ![i].pc = "logVerify",
                                         ![i].passed = VerifyPassed(runTests(exec))]
       /\ UNCHANGED replLast

\* lines 241-255: the verification is logged; break, or the result is pushed
\* and the next pass starts
VerifyLogged ==
  /\ RunFrame
  /\ \E i \in 1..Len(replRuns) :
       /\ replRuns[i].pc = "logVerify"
       /\ IF replRuns[i].passed
            THEN /\ replRuns' = [replRuns EXCEPT ![i].pc = "done"]
                 /\ UNCHANGED replLast
            ELSE /\ replRuns' = [replRuns EXCEPT ![i] = EnterLoop([@ EXCEPT !.iterations = 0])]
                 /\ replLast' = Pushed(i, "functionResponse")

\* line 266, or the unhandled rejection of line 265
OneShotExit ==
  /\ replMode = "one-shot"
  /\ ~replExit.exited
  /\ Len(replRuns) = 1
  /\ replRuns[1].pc \in {"done", "aborted"}
  /\ replExit' = [exited |-> TRUE, code |-> IF replRuns[1].pc = "done" THEN 0 ELSE 1]
  /\ UNCHANGED <<replMode, replUntilDone, replMaxToolIters, replLines, replRuns, replLast>>
  /\ UNCHANGED exceptRepl

\* lines 279-282: the input ends; process.exit(0)
CloseEvent ==
  /\ replMode = "repl"
  /\ ~replExit.exited
  /\ replExit' = [exited |-> TRUE, code |-> 0]
  /\ UNCHANGED <<replMode, replUntilDone, replMaxToolIters, replLines, replRuns, replLast>>
  /\ UNCHANGED exceptRepl

NextRepl ==
  \/ OneShotTask
  \/ LineEvent
  \/ TaskLogged
  \/ TurnReturns
  \/ TurnThrows
  \/ TextLogged
  \/ CallLogged
  \/ UnknownLogged
  \/ ImplSettles
  \/ ResultLogged
  \/ VerifySettles
  \/ VerifyLogged
  \/ OneShotExit
  \/ CloseEvent

SpecRepl == InitRepl /\ [][NextRepl]_vars

(***************************************************************************)
(* Claims about concurrency.                                               *)
(***************************************************************************)
\* The invocations suspended at one of the given awaits
RunsAt(pcs) == {i \in 1..Len(replRuns) : replRuns[i].pc \in pcs}

TasksInProgress == RunsAt({"logTask", "turn", "logText", "logCall", "logUnknown",
                           "impl", "logResult", "verify", "logVerify"})

\* C22: while the process runs, at most one task run, at most one model
\* turn and at most one tool call (a dispatched tool or the verification
\* command) is in progress, in one-shot and in interactive mode.
C22_OneTaskOneTurnOneToolAtATime ==
  ~replExit.exited =>
    /\ Cardinality(TasksInProgress) <= 1
    /\ Cardinality(RunsAt({"turn"})) <= 1
    /\ Cardinality(RunsAt({"impl", "verify"})) <= 1

====
